---- MODULE Spec2Model ----
(***************************************************************************)
(* Congestion-adaptive quality controller of CeeblueTV/webrtc-client:      *)
(* the sender-side bitrate controllers (ABRAbstract, ABRLinear, ABRGrade), *)
(* the sample window they use (Queue, Numbers), the receiver-side track   *)
(* selector (MBRAbstract, MBRLinear), the track ladder it is given         *)
(* (StreamMetadata, Metadata) and the Streamer that drives the bitrate     *)
(* controller.                                                             *)
(*                                                                         *)
(* Conventions of the model                                                *)
(*  - Bitrates are integers (bps) and times are integer milliseconds, as   *)
(*    the code keeps them (Math.round on every stored bound, Util.time()   *)
(*    is Math.floor(performance.now())).  A value assigned to a bound may  *)
(*    be fractional: it is given in halves of a bps and rounded by         *)
(*    RoundHalves as Math.round does.                                      *)
(*  - Loss percentages are carried in tenths of a percent (loss_perc*10),  *)
(*    so that the thresholds 0.2 and 5.0 of ABRGrade are the integers 2    *)
(*    and 50.  Products and quotients are exact rational arithmetic.       *)
(*  - An optional value that is undefined is the integer Undefined.        *)
(*  - ABRLinear reads this.recoveryFactor, the name under which the        *)
(*    recovery parameter of ABRAbstract (recoverySteps, clamped to >= 1    *)
(*    by its setter) is known to it; logging calls change no state.        *)
(*  - The track selector is given one ladder (video renditions 1..3 and    *)
(*    audio renditions 4..5, linked by up and down) and, at each compute,  *)
(*    the statistics of its reference track, absent or with each of        *)
(*    packetsLost, nackCount and keyFramesDecoded present or not.          *)
(*  - The clock is positive: Util.time() counts from the time origin of    *)
(*    the page and the controllers are called long after it.               *)
(***************************************************************************)
EXTENDS Integers, Sequences, FiniteSets, TLC

VARIABLES
    kind,                 \* "linear" (ABRLinear) or "grade" (ABRGrade)
    startup,              \* ABRAbstract._startup
    minimum,              \* ABRAbstract._minimum
    maximum,              \* ABRAbstract._maximum
    recoverySteps,        \* ABRAbstract._recoverySteps
    appreciationDuration, \* ABRAbstract._appreciationDuration
    bitrateValue,         \* ABRAbstract._bitrate
    constraint,           \* ABRAbstract._bitrateConstraint
    lvars,                \* ABRLinear._vars
    gvars,                \* ABRGrade._vars
    now,                  \* Util.time() at the latest call
    last,                 \* history: the latest compute or reset and its result
    lastSet,              \* history: the latest assignment to a bound
    phase,                \* history: computes since construction or reset
    constructed,          \* history: the strategy state right after construction
    lossHist,             \* history: the lossy reports ABRLinear was given
    nsets,                \* history: number of bound assignments made
    mbr,                  \* the fields of MBRAbstract and MBRLinear
    tracks,               \* the caller's selection {audio?, video?} given to compute
    mlast,                \* history: the latest call on the track selector
    streak,               \* history: the running congestion-free streak
    sinceDown,            \* history: a down-switch is the latest change of selection
    nsame,                \* history: computes made without the clock advancing
    twin,                 \* a selector constructed at the latest reset, given the same calls
    nums,                 \* a Numbers (a Queue<number>) used on its own
    nlast,                \* history: the latest call on nums
    npush,                \* history: push calls on nums since construction or clear
    npop,                 \* history: pop calls on nums that returned a value
    nresized,             \* history: the capacity of nums was assigned
    meta,                 \* the Metadata of StreamMetadata and the track objects it refers to
    mdlast,               \* history: the latest operation on meta
    streamer,             \* the fields of Streamer
    slast,                \* history: the latest operation on the streamer
    pinned,               \* history: the video bitrate the user has assigned and not removed
    player,               \* the fields of Player and the state of its connector
    plast,                \* history: the latest operation on the player
    pfixed,               \* history: the track indexes the user has fixed since start
    ws,                   \* the fields of WebSocketReliable and what its socket was given
    wlast,                \* history: the latest operation on the socket
    host                  \* the bitrate a host feeds to ABRLinear and the history of its streak

abrOnly == <<kind, startup, minimum, maximum, recoverySteps, appreciationDuration,
             bitrateValue, constraint, lvars, gvars, last, lastSet, phase,
             constructed, lossHist, nsets>>

abrVars == <<abrOnly, now>>

mbrVars == <<mbr, tracks, mlast, streak, sinceDown, nsame, twin>>

numVars == <<nums, nlast, npush, npop, nresized>>

metaVars == <<meta, mdlast>>

strVars == <<streamer, slast, pinned>>

playerVars == <<player, plast, pfixed>>

wsVars == <<ws, wlast>>

hostVars == <<host>>

extVars == <<playerVars, wsVars, hostVars>>

libVars == <<numVars, metaVars, strVars, extVars>>

vars == <<abrVars, mbrVars, libVars>>

-----------------------------------------------------------------------------
(* Values *)

Undefined == -1
PositiveInfinity == 1000000000

DefaultStartup == 2000000
DefaultMaximum == 3000000
DefaultMinimum == 200000
DefaultRecoverySteps == 2
DefaultAppreciationDuration == 4000
STABLE_TIMEOUT_MS == 11000
BITRATE_RECOVERY_MIN_TIMEOUT == 2500
BITRATE_RECOVERY_MAX_TIMEOUT == 60000
InitialRecoveryTimeout == 10000
StableUpdatePeriod == 4000
LossCapacity == 5
StableCapacity == 15

\* Bounds of the exploration
MaxNow == 17000
MaxNowGrade == 15000
MaxSets == 1

Min2(a, b) == IF a < b THEN a ELSE b
Max2(a, b) == IF a > b THEN a ELSE b

\* Math.round of h/2: the nearest integer, halves rounded up
RoundHalves(h) == (h + 1) \div 2

\* Math.ceil(a / b) for b > 0
CeilDiv(a, b) == 0 - ((0 - a) \div b)

\* JavaScript truthiness of an optional number: defined and not 0
Truthy(x) == x # Undefined /\ x # 0

-----------------------------------------------------------------------------
(* Queue and Numbers: the sample window *)

RECURSIVE SeqMax(_, _)
SeqMax(s, acc) == IF s = <<>> THEN acc ELSE SeqMax(Tail(s), Max2(acc, Head(s)))

RECURSIVE SeqMin(_, _)
SeqMin(s, acc) == IF s = <<>> THEN acc ELSE SeqMin(Tail(s), Min2(acc, Head(s)))

NoAverage == [num |-> 0, den |-> 0]

NewNumbers(cap) ==
    [queue |-> <<>>, capacity |-> cap, sum |-> 0, min |-> 0, max |-> 0, average |-> NoAverage]

\* Numbers.pop that leaves the running sum as it is
NumbersPopKeepSum(n) ==
    IF n.queue = <<>>
    THEN [n EXCEPT !.average = NoAverage]
    ELSE LET front == Head(n.queue)
             rest == Tail(n.queue)
         IN [n EXCEPT !.queue = rest,
                      !.max = IF front = n.max THEN SeqMax(rest, 0) ELSE @,
                      !.min = IF front # n.max /\ front = n.min THEN SeqMin(rest, 0) ELSE @,
                      !.average = NoAverage]

\* Numbers.pop (with Queue.pop: Array.shift)
NumbersPop(n) ==
    IF n.queue = <<>>
    THEN \* front is undefined: no === matches, sum -= 0
         [n EXCEPT !.average = NoAverage]
    ELSE LET front == Head(n.queue)
             rest == Tail(n.queue)
         IN [n EXCEPT !.queue = rest,
                      !.max = IF front = n.max THEN SeqMax(rest, 0) ELSE @,
                      !.min = IF front # n.max /\ front = n.min THEN SeqMin(rest, 0) ELSE @,
                      !.average = NoAverage,
                      !.sum = @ - front]

\* Numbers.push whose overflow removes the front with Queue.pop alone
NumbersPushPlainEviction(n, value) ==
    LET n1 == [n EXCEPT !.max = IF value > n.max THEN value ELSE @,
                        !.min = IF value <= n.max /\ value < n.min THEN value ELSE @,
                        !.average = NoAverage,
                        !.sum = @ + value]
    IN IF n1.capacity = Undefined
       THEN n1
       ELSE LET n2 == [n1 EXCEPT !.queue = Append(@, value)]
            IN IF Len(n2.queue) > n2.capacity THEN [n2 EXCEPT !.queue = Tail(@)] ELSE n2

\* Numbers.push (with Queue.push, whose overflow pop dispatches to Numbers.pop)
NumbersPush(n, value) ==
    LET n1 == [n EXCEPT !.max = IF value > n.max THEN value ELSE @,
                        !.min = IF value <= n.max /\ value < n.min THEN value ELSE @,
                        !.average = NoAverage,
                        !.sum = @ + value]
    IN IF n1.capacity = Undefined
       THEN n1   \* Queue.push: the && short-circuits, nothing is stored
       ELSE LET n2 == [n1 EXCEPT !.queue = Append(@, value)]
            IN IF Len(n2.queue) > n2.capacity THEN NumbersPop(n2) ELSE n2

\* Numbers.average getter: memoizes sum/size (0 when empty) as a fraction
ReadAverage(n) ==
    IF n.average # NoAverage THEN n
    ELSE [n EXCEPT !.average = IF Len(n.queue) # 0
                               THEN [num |-> n.sum, den |-> Len(n.queue)]
                               ELSE [num |-> 0, den |-> 1]]

\* average < a/b, for a Numbers whose average has been read
AvgLess(n, a, b) == n.average.num * b < a * n.average.den

-----------------------------------------------------------------------------
(* ABRAbstract: bounds *)

\* startup setter
SetStartupValue(b, h) ==
    [b EXCEPT !.startup = Max2(b.minimum, Min2(RoundHalves(h), b.maximum))]

\* minimum setter
SetMinimumValue(b, h) ==
    LET value == RoundHalves(h) IN
    IF value > b.maximum
    THEN [minimum |-> value, maximum |-> value, startup |-> value]
    ELSE IF b.startup < value
         THEN [b EXCEPT !.minimum = value, !.startup = value]
         ELSE [b EXCEPT !.minimum = value]

\* maximum setter
SetMaximumValue(b, h) ==
    LET value == RoundHalves(h) IN
    IF value < b.minimum
    THEN [minimum |-> value, maximum |-> value, startup |-> value]
    ELSE IF b.startup > value
         THEN [b EXCEPT !.maximum = value, !.startup = value]
         ELSE [b EXCEPT !.maximum = value]

Bounds == [startup |-> startup, minimum |-> minimum, maximum |-> maximum]

-----------------------------------------------------------------------------
(* ABRLinear *)

NewLinearVars(recoveryFactor) ==
    [stableTime |-> 0, stableBitrate |-> 0, lastLoss |-> PositiveInfinity,
     recoveryFactor |-> recoveryFactor]

\* Math.round((1 - loss_perc / 100) * bitrate), loss in tenths of a percent
LossyBitrate(bitrate, loss) == bitrate + ((500 - bitrate * loss) \div 1000)

\* the test of line 67 with > in place of >=
LossNotImprovingStrict(loss, lastLoss) == loss > lastLoss

\* ABRLinear._computeBitrate, line 67: the loss is not improving
LossNotImproving(loss, lastLoss) == loss >= lastLoss

\* Variants of ABRLinear._computeBitrate: clamped is what the constraint branch
\* stores in the variables, factor what a probe stores in recoveryFactor, lossy
\* whether a lossy report may lower the bitrate and window the time a streak
\* has to last before the next probe
LinearVariant(v, bitrate, bitrateConstraint, loss, t, max, clamped, factor, lossy, window) ==
    IF Truthy(bitrateConstraint) /\ bitrate > bitrateConstraint
    THEN [ret |-> bitrateConstraint, vars |-> clamped, resolution |-> FALSE]
    ELSE IF Truthy(loss)
    THEN [ret |-> IF lossy THEN LossyBitrate(bitrate, loss) ELSE bitrate,
          vars |-> [v EXCEPT !.stableTime = 0, !.lastLoss = loss],
          resolution |-> FALSE]
    ELSE LET v1 == [v EXCEPT !.lastLoss = PositiveInfinity] IN
         IF t >= v1.stableTime
         THEN IF v1.stableTime # 0
              THEN [ret |-> bitrate + CeilDiv(max - v1.stableBitrate, v1.recoveryFactor),
                    vars |-> [v1 EXCEPT !.recoveryFactor = factor,
                                        !.stableTime = t + window],
                    resolution |-> TRUE]
              ELSE [ret |-> bitrate,
                    vars |-> [v1 EXCEPT !.stableBitrate = bitrate,
                                        !.recoveryFactor = @ + 1,
                                        !.stableTime = t + window],
                    resolution |-> FALSE]
         ELSE [ret |-> bitrate, vars |-> v1, resolution |-> FALSE]

\* ABRLinear._computeBitrate that leaves stableTime alone when the constraint binds
LinearComputeBitrateKeepStable(v, bitrate, bitrateConstraint, loss, t, max, rsteps) ==
    LinearVariant(v, bitrate, bitrateConstraint, loss, t, max,
                  v, Max2(v.recoveryFactor - 1, rsteps),
                  LossNotImproving(loss, v.lastLoss), STABLE_TIMEOUT_MS)

\* ABRLinear._computeBitrate whose probe decrements the counter without a floor
LinearComputeBitrateNoFloor(v, bitrate, bitrateConstraint, loss, t, max, rsteps) ==
    LinearVariant(v, bitrate, bitrateConstraint, loss, t, max,
                  [v EXCEPT !.stableTime = 0], v.recoveryFactor - 1,
                  LossNotImproving(loss, v.lastLoss), STABLE_TIMEOUT_MS)

\* ABRLinear._computeBitrate whose probe increments the counter
LinearComputeBitrateSlowing(v, bitrate, bitrateConstraint, loss, t, max, rsteps) ==
    LinearVariant(v, bitrate, bitrateConstraint, loss, t, max,
                  [v EXCEPT !.stableTime = 0], v.recoveryFactor + 1,
                  LossNotImproving(loss, v.lastLoss), STABLE_TIMEOUT_MS)

\* ABRLinear._computeBitrate that lowers the bitrate on every lossy report
LinearComputeBitrateAlwaysLowers(v, bitrate, bitrateConstraint, loss, t, max, rsteps) ==
    LinearVariant(v, bitrate, bitrateConstraint, loss, t, max,
                  [v EXCEPT !.stableTime = 0], Max2(v.recoveryFactor - 1, rsteps), TRUE,
                  STABLE_TIMEOUT_MS)

\* ABRLinear._computeBitrate that probes after the appreciation duration
LinearComputeBitrateShortWindow(v, bitrate, bitrateConstraint, loss, t, max, rsteps) ==
    LinearVariant(v, bitrate, bitrateConstraint, loss, t, max,
                  [v EXCEPT !.stableTime = 0], Max2(v.recoveryFactor - 1, rsteps),
                  LossNotImproving(loss, v.lastLoss), DefaultAppreciationDuration)

\* ABRLinear._computeBitrate: [ret, vars, resolution]
LinearComputeBitrate(v, bitrate, bitrateConstraint, loss, t, max, rsteps) ==
    IF Truthy(bitrateConstraint) /\ bitrate > bitrateConstraint
    THEN [ret |-> bitrateConstraint,
          vars |-> [v EXCEPT !.stableTime = 0],
          resolution |-> FALSE]
    ELSE IF Truthy(loss)
    THEN [ret |-> IF LossNotImproving(loss, v.lastLoss)
                  THEN LossyBitrate(bitrate, loss)
                  ELSE bitrate,
          vars |-> [v EXCEPT !.stableTime = 0, !.lastLoss = loss],
          resolution |-> FALSE]
    ELSE LET v1 == [v EXCEPT !.lastLoss = PositiveInfinity] IN
         IF t >= v1.stableTime
         THEN IF v1.stableTime # 0
              THEN [ret |-> bitrate + CeilDiv(max - v1.stableBitrate, v1.recoveryFactor),
                    vars |-> [v1 EXCEPT !.recoveryFactor = Max2(@ - 1, rsteps),
                                        !.stableTime = t + STABLE_TIMEOUT_MS],
                    resolution |-> TRUE]
              ELSE [ret |-> bitrate,
                    vars |-> [v1 EXCEPT !.stableBitrate = bitrate,
                                        !.recoveryFactor = @ + 1,
                                        !.stableTime = t + STABLE_TIMEOUT_MS],
                    resolution |-> FALSE]
         ELSE [ret |-> bitrate, vars |-> v1, resolution |-> FALSE]

-----------------------------------------------------------------------------
(* ABRGrade *)

NewGradeVars ==
    [lossPercents |-> NewNumbers(LossCapacity),
     stableBitrates |-> NewNumbers(StableCapacity),
     stableBitrateUpdateTime |-> 0,
     bitrateRecoveryTimeout |-> InitialRecoveryTimeout,
     bitrateRecoveryNextTime |-> 0,
     bitrateRecoveryTime |-> Undefined,
     bitrateConstraintTime |-> Undefined]

\* ABRGrade._increaseRecoveryTimeout
IncreaseRecoveryTimeout(timeout) == Min2(BITRATE_RECOVERY_MAX_TIMEOUT, 2 * timeout)

\* ABRGrade._decreaseRecoveryTimeout: Math.round(0.75 * timeout)
DecreaseRecoveryTimeout(timeout) ==
    Max2(BITRATE_RECOVERY_MIN_TIMEOUT, (3 * timeout + 2) \div 4)

\* ABRGrade._increaseTargetBitrate with the default factor 1.05
IncreaseTargetBitrate(bitrateConstraint, max) ==
    Min2((105 * bitrateConstraint + 50) \div 100, max)

\* ABRGrade._increaseTargetBitrate with factor 1.005
IncreaseTargetBitrateSlow(bitrateConstraint, max) ==
    Min2(bitrateConstraint + ((5 * bitrateConstraint + 500) \div 1000), max)

\* ABRGrade._decreaseTargetBitrate
DecreaseTargetBitrate(bitrateConstraint, min) ==
    Max2((99 * bitrateConstraint + 50) \div 100, min)

\* ABRGrade._bitrateRecoveryHandler without the 0.5% step of line 135
BitrateRecoveryHandlerAlwaysFast(v, bitrateConstraint, min, max) ==
    LET v1 == [v EXCEPT !.lossPercents = ReadAverage(@)] IN
    IF AvgLess(v1.lossPercents, 2, 1)
    THEN [ret |-> IncreaseTargetBitrate(bitrateConstraint, max),
          vars |-> [v1 EXCEPT !.bitrateRecoveryTimeout = DecreaseRecoveryTimeout(@)]]
    ELSE IF AvgLess(v1.lossPercents, 50, 1)
    THEN [ret |-> DecreaseTargetBitrate(bitrateConstraint, min),
          vars |-> [v1 EXCEPT !.bitrateRecoveryTimeout = IncreaseRecoveryTimeout(@)]]
    ELSE [ret |-> Undefined, vars |-> v1]

\* ABRGrade._bitrateRecoveryHandler: [ret, vars]
BitrateRecoveryHandler(v, bitrateConstraint, min, max) ==
    LET v1 == [v EXCEPT !.lossPercents = ReadAverage(@)] IN
    IF AvgLess(v1.lossPercents, 2, 1)
    THEN LET fast == IncreaseTargetBitrate(bitrateConstraint, max)
             v2 == IF Truthy(v1.bitrateConstraintTime)
                   THEN [v1 EXCEPT !.stableBitrates = ReadAverage(@)]
                   ELSE v1
             slow == Truthy(v1.bitrateConstraintTime)
                     /\ v2.stableBitrates.average.num
                          < fast * v2.stableBitrates.average.den
         IN [ret |-> IF slow THEN IncreaseTargetBitrateSlow(bitrateConstraint, max)
                     ELSE fast,
             vars |-> [v2 EXCEPT !.bitrateRecoveryTimeout = DecreaseRecoveryTimeout(@)]]
    ELSE IF AvgLess(v1.lossPercents, 50, 1)
    THEN [ret |-> DecreaseTargetBitrate(bitrateConstraint, min),
          vars |-> [v1 EXCEPT !.bitrateRecoveryTimeout = IncreaseRecoveryTimeout(@)]]
    ELSE [ret |-> Undefined, vars |-> v1]

\* ABRGrade._computeBitrate, lines 54-56: the loss sample
GradePushLoss(v, loss) ==
    IF loss # Undefined THEN [v EXCEPT !.lossPercents = NumbersPush(@, loss)] ELSE v

\* Math.min(bitrateConstraint ?? this.constraint ?? 0, bitrate, this.maximum)
StableSample(bitrate, bitrateConstraint, thisConstraint, max) ==
    Min2(IF bitrateConstraint # Undefined THEN bitrateConstraint
         ELSE IF thisConstraint # Undefined THEN thisConstraint
         ELSE 0,
         Min2(bitrate, max))

\* lines 62-65, for v whose lossPercents.average has been read
GradePushStable(v, sample, t) ==
    IF AvgLess(v.lossPercents, 2, 1)
    THEN [v EXCEPT !.stableBitrateUpdateTime = t + StableUpdatePeriod,
                   !.stableBitrates = NumbersPush(@, sample)]
    ELSE v

\* lines 59-66: the stable-bitrate sample, every 4 seconds
GradeUpdateStable(v, sample, t) ==
    IF t >= v.stableBitrateUpdateTime
    THEN GradePushStable([v EXCEPT !.lossPercents = ReadAverage(@)], sample, t)
    ELSE v

\* lines 68-70: the reads of stableBitrates.average, minimum and maximum
GradeReadStable(v) == [v EXCEPT !.stableBitrates = ReadAverage(@)]

\* line 73: minimum and maximum within 20% of the average (which has been read)
WithinTwentyPercent(n) ==
    /\ 10 * n.min * n.average.den >= 8 * n.average.num
    /\ 10 * n.max * n.average.den <= 12 * n.average.num

\* ABRGrade._computeBitrate, lines 54-70: vars after the sample windows are updated
GradeSample(v, bitrate, bitrateConstraint, loss, t, thisConstraint, max) ==
    GradeReadStable(
        GradeUpdateStable(GradePushLoss(v, loss),
                          StableSample(bitrate, bitrateConstraint, thisConstraint, max),
                          t))

\* ABRGrade._computeBitrate, lines 77-103: reaction to a decreased constraint
GradeConstraintDecrease(v, bitrate, bitrateConstraint, t, thisConstraint) ==
    IF bitrateConstraint # Undefined /\ thisConstraint # Undefined
       /\ bitrateConstraint < thisConstraint
    THEN LET first == ~Truthy(v.bitrateConstraintTime)
             late == /\ ~first
                     /\ Truthy(v.bitrateRecoveryTime)
                     /\ \/ t - v.bitrateRecoveryTime < v.bitrateRecoveryTimeout
                        \/ v.bitrateRecoveryTimeout = BITRATE_RECOVERY_MIN_TIMEOUT
         IN [bitrate |-> IF first /\ ~Truthy(v.bitrateRecoveryTime)
                         THEN (bitrate + 1) \div 2
                         ELSE bitrate,
             vars |-> [v EXCEPT
                         !.bitrateRecoveryTimeout =
                             IF late THEN IncreaseRecoveryTimeout(@) ELSE @,
                         !.bitrateRecoveryTime = IF late THEN Undefined ELSE @,
                         !.bitrateConstraintTime = t]]
    ELSE [bitrate |-> bitrate, vars |-> v]

\* ABRGrade._computeBitrate, lines 105-125: recovery under constraint
GradeRecovery(v, bitrate, bitrateConstraint, t, min, max) ==
    IF Truthy(bitrateConstraint)
    THEN LET b1 == IF bitrateConstraint < min THEN min ELSE bitrate IN
         IF max > bitrateConstraint /\ t >= v.bitrateRecoveryNextTime
         THEN LET h == IF v.bitrateRecoveryNextTime = 0
                       THEN [ret |-> 0, vars |-> v]
                       ELSE BitrateRecoveryHandler(v, bitrateConstraint, min, max)
              IN IF ~Truthy(h.ret)
                 THEN [ret |-> b1,
                       vars |-> [h.vars EXCEPT !.bitrateRecoveryNextTime =
                                                   t + h.vars.bitrateRecoveryTimeout]]
                 ELSE [ret |-> h.ret,
                       vars |-> [h.vars EXCEPT !.bitrateRecoveryTimeout = t,
                                               !.bitrateRecoveryNextTime = 0]]
         ELSE [ret |-> b1, vars |-> v]
    ELSE [ret |-> bitrate, vars |-> v]

\* ABRGrade._computeBitrate, lines 77-125, for vars d = [bitrate, vars]
GradeRecoveryAfter(d, bitrateConstraint, t, min, max) ==
    GradeRecovery(d.vars, d.bitrate, bitrateConstraint, t, min, max)

\* ABRGrade._computeBitrate, lines 72-125, for vars whose windows are updated
GradeDecide(v, bitrate, bitrateConstraint, t, thisConstraint, min, max) ==
    LET r == GradeRecoveryAfter(
                 GradeConstraintDecrease(v, bitrate, bitrateConstraint, t, thisConstraint),
                 bitrateConstraint, t, min, max)
    IN [ret |-> r.ret, vars |-> r.vars,
        resolution |-> WithinTwentyPercent(v.stableBitrates)]

\* ABRGrade._computeBitrate: [ret, vars, resolution]
GradeComputeBitrate(v, bitrate, bitrateConstraint, loss, t, thisConstraint, min, max) ==
    GradeDecide(GradeSample(v, bitrate, bitrateConstraint, loss, t, thisConstraint, max),
                bitrate, bitrateConstraint, t, thisConstraint, min, max)

-----------------------------------------------------------------------------
(* ABRAbstract: construction, compute, reset *)

\* ABRAbstract.constructor (Object.assign of the defaults and the params given;
\* a param left out is Undefined) followed by the strategy's own constructor
Constructed(k, params) ==
    LET rsteps == Max2(1, IF params.recoverySteps = Undefined
                          THEN DefaultRecoverySteps ELSE params.recoverySteps)
    IN [startup |-> IF params.startup = Undefined THEN DefaultStartup ELSE params.startup,
        minimum |-> IF params.minimum = Undefined THEN DefaultMinimum ELSE params.minimum,
        maximum |-> IF params.maximum = Undefined THEN DefaultMaximum ELSE params.maximum,
        recoverySteps |-> rsteps,
        appreciationDuration |-> DefaultAppreciationDuration,
        bitrateValue |-> Undefined,
        constraint |-> Undefined,
        lvars |-> NewLinearVars(rsteps - 1),
        gvars |-> NewGradeVars]

\* The strategy state a controller holds: what reset() is to bring back
StrategyState == [bitrateValue |-> bitrateValue, constraint |-> constraint,
                  lvars |-> lvars, gvars |-> gvars]

\* ABRAbstract.compute without the first-call bypass: the strategy is run on startup
ComputeResultNoBypass(k, lv, gv, bitrate, bitrateConstraint, loss, t, thisConstraint, b, rsteps) ==
    LET current == IF bitrate = Undefined THEN b.startup ELSE bitrate IN
    IF k = "linear"
    THEN LET r == LinearComputeBitrate(lv, current, bitrateConstraint, loss, t,
                                       b.maximum, rsteps)
         IN [ret |-> IF bitrate = Undefined THEN b.startup
                     ELSE Max2(b.minimum, Min2(r.ret, b.maximum)),
             lvars |-> r.vars, gvars |-> gv, resolution |-> r.resolution]
    ELSE LET r == GradeComputeBitrate(gv, current, bitrateConstraint, loss, t,
                                      thisConstraint, b.minimum, b.maximum)
         IN [ret |-> IF bitrate = Undefined THEN b.startup
                     ELSE Max2(b.minimum, Min2(r.ret, b.maximum)),
             lvars |-> lv, gvars |-> r.vars, resolution |-> r.resolution]

\* ABRAbstract.compute: [ret, lvars, gvars, resolution]
ComputeResult(k, lv, gv, bitrate, bitrateConstraint, loss, t, thisConstraint, b, rsteps) ==
    IF bitrate = Undefined
    THEN [ret |-> b.startup, lvars |-> lv, gvars |-> gv, resolution |-> FALSE]
    ELSE IF k = "linear"
    THEN LET r == LinearComputeBitrate(lv, bitrate, bitrateConstraint, loss, t,
                                       b.maximum, rsteps)
         IN [ret |-> Max2(b.minimum, Min2(r.ret, b.maximum)),
             lvars |-> r.vars, gvars |-> gv, resolution |-> r.resolution]
    ELSE LET r == GradeComputeBitrate(gv, bitrate, bitrateConstraint, loss, t,
                                      thisConstraint, b.minimum, b.maximum)
         IN [ret |-> Max2(b.minimum, Min2(r.ret, b.maximum)),
             lvars |-> lv, gvars |-> r.vars, resolution |-> r.resolution]

\* reset() that only runs ABRAbstract.reset and keeps the strategy's _vars
ResetResultBaseOnly(k, lv, gv, rsteps) ==
    [bitrateValue |-> Undefined, constraint |-> Undefined, lvars |-> lv, gvars |-> gv]

\* ABRLinear.reset / ABRGrade.reset, each calling ABRAbstract.reset
ResetResult(k, lv, gv, rsteps) ==
    [bitrateValue |-> Undefined, constraint |-> Undefined,
     lvars |-> IF k = "linear" THEN NewLinearVars(rsteps - 1) ELSE lv,
     gvars |-> IF k = "grade" THEN NewGradeVars ELSE gv]

-----------------------------------------------------------------------------
(* Inputs *)

Kinds == {"linear", "grade"}
\* ABRParams given to the constructor: the defaults, two consistent choices and
\* two choices whose bounds are not ordered
ParamChoices ==
    {[startup |-> Undefined, minimum |-> Undefined, maximum |-> Undefined],
     [startup |-> 1000000, minimum |-> Undefined, maximum |-> 1200000],
     [startup |-> 1000000, minimum |-> 1500000, maximum |-> Undefined],
     [startup |-> Undefined, minimum |-> Undefined, maximum |-> 1200000]}
ParamRecoverySteps == {Undefined, 0}
BitrateInputs == {Undefined, 1000000}
\* ABRLinear only compares the constraint with the current bitrate
ConstraintInputs(k) ==
    IF k = "linear" THEN {Undefined, 800000} ELSE {Undefined, 800000, 2000000}
\* loss_perc in tenths of a percent; ABRLinear does not tell a report without
\* loss_perc from one with loss_perc 0
LossInputs(k) == IF k = "linear" THEN {0, 50, 100} ELSE {Undefined, 0, 50}
\* time between two calls: the stability window of each strategy can elapse or not
ClockSteps(k) == IF k = "linear" THEN {4000, 12000} ELSE {4000, 10000}
Horizon(k) == IF k = "linear" THEN MaxNow ELSE MaxNowGrade
\* values assigned to a bound, in halves: 500000.5 and 3500000
SetterHalves == {1000001, 7000000}

NoCall == [op |-> "new", bitrate |-> Undefined, bitrateConstraint |-> Undefined,
           loss |-> Undefined, ret |-> Undefined, at |-> 0,
           pre |-> [startup |-> 0, minimum |-> 0, maximum |-> 0],
           dirty |-> FALSE, resolution |-> FALSE]

NoSet == [op |-> "none", assigned |-> 0,
          pre |-> [startup |-> 0, minimum |-> 0, maximum |-> 0]]

NoLoss == [seen |-> Undefined, remembered |-> Undefined,
           seenBefore |-> Undefined, rememberedBefore |-> Undefined]

\* The constraint is present and the current bitrate exceeds it
Binds(bitrate, bitrateConstraint) ==
    bitrateConstraint # Undefined /\ bitrateConstraint # 0 /\ bitrate > bitrateConstraint

\* History of the lossy reports, kept apart from the strategy's own variables:
\*  seen       - loss of the most recent lossy report given with a defined bitrate
\*  remembered - loss of the most recent lossy report given while the constraint did
\*               not bind, unless a loss-free report was given since while the
\*               constraint did not bind
\* both forgotten by reset()
LossAfterCompute(h, bitrate, bitrateConstraint, loss) ==
    [seen |-> IF bitrate # Undefined /\ Truthy(loss) THEN loss ELSE h.seen,
     remembered |-> IF bitrate = Undefined \/ Binds(bitrate, bitrateConstraint)
                    THEN h.remembered
                    ELSE IF Truthy(loss) THEN loss ELSE Undefined,
     seenBefore |-> h.seen,
     rememberedBefore |-> h.remembered]

-----------------------------------------------------------------------------
(* Metadata: the ladder of the stream given to the track selector *)

LEARNING_UP_STEP == 1400
MAXIMUM_UP_DELAY == 28000
MaxGopMs == 10000

\* Video renditions 1 <-> 2 <-> 3 and audio renditions 4 <-> 5, by ascending maxbps
VideoTracks == {1, 2, 3}
AudioTracks == {4, 5}

\* An index that metadata.tracks does not hold
AbsentTrack == 9

\* metadata.tracks.get(idx)
MetadataGet(idx) == IF idx \in VideoTracks \cup AudioTracks THEN idx ELSE Undefined

\* MTrack.type
TypeOf(idx) == IF idx \in AudioTracks THEN "audio" ELSE "video"

\* MTrack.up
Up(idx) == IF idx \in {1, 2, 4} THEN idx + 1 ELSE Undefined

\* MTrack.down
Down(idx) == IF idx \in {2, 3, 5} THEN idx - 1 ELSE Undefined

-----------------------------------------------------------------------------
(* MBRLinear *)

\* MBRAbstract.constructor and MBRLinear.constructor; an absent parameter is Undefined
NewMBR(params) ==
    [mTrack |-> Undefined,
     learningUpStep |-> IF params.learningUpStep = Undefined
                        THEN LEARNING_UP_STEP ELSE params.learningUpStep,
     maximumUpDelay |-> IF params.maximumUpDelay = Undefined
                        THEN MAXIMUM_UP_DELAY ELSE params.maximumUpDelay,
     upDelay |-> 0,
     testTime |-> 0,
     appreciationTime |-> Undefined,
     lost |-> 0,
     nackCount |-> 0,
     keyFramesDecoded |-> 0]

\* MBRLinear._downBitrate, line 44
Congested(m, elapsed, lost, nack) ==
    /\ elapsed > 0
    /\ lost > m.lost
    /\ (IF Truthy(nack) THEN nack > m.nackCount ELSE TRUE)

\* MBRLinear._downBitrate: [ret, mbr]
DownBitrate(m, elapsed, stats) ==
    IF stats.packetsLost = Undefined
    THEN [ret |-> FALSE, mbr |-> m]
    ELSE [ret |-> Congested(m, elapsed, stats.packetsLost, stats.nackCount),
          mbr |-> [m EXCEPT !.lost = stats.packetsLost,
                            !.nackCount = IF Truthy(stats.nackCount)
                                          THEN stats.nackCount ELSE 0]]

\* MBRLinear._upBitrate: [ret, mbr]
UpBitrate(m, elapsed, stats) ==
    IF TypeOf(m.mTrack) = "audio" THEN [ret |-> TRUE, mbr |-> m]
    ELSE IF elapsed > MaxGopMs THEN [ret |-> TRUE, mbr |-> m]
    ELSE IF stats.keyFramesDecoded = Undefined THEN [ret |-> FALSE, mbr |-> m]
    ELSE IF elapsed = 0
    THEN [ret |-> FALSE, mbr |-> [m EXCEPT !.keyFramesDecoded = stats.keyFramesDecoded]]
    ELSE IF stats.keyFramesDecoded > m.keyFramesDecoded
    THEN IF m.keyFramesDecoded = 0
         THEN [ret |-> TRUE, mbr |-> m]
         ELSE [ret |-> FALSE, mbr |-> [m EXCEPT !.keyFramesDecoded = 0]]
    ELSE [ret |-> FALSE, mbr |-> m]

-----------------------------------------------------------------------------
(* MBRAbstract *)

\* MBRAbstract.updateTrack that always takes the up neighbour
UpdateTrackUpOnly(track, down) ==
    IF track = Undefined \/ MetadataGet(track) = Undefined THEN Undefined
    ELSE Up(track)

\* MBRAbstract.updateTrack
UpdateTrack(track, down) ==
    IF track = Undefined \/ MetadataGet(track) = Undefined THEN Undefined
    ELSE IF down THEN Down(track) ELSE Up(track)

\* the back-off of line 168 without its cap
GrowUpDelayUncapped(m) == m.upDelay + m.learningUpStep

\* MBRAbstract.compute, line 168
GrowUpDelay(m) == Min2(m.upDelay + m.learningUpStep, m.maximumUpDelay)

\* the test of line 150 without the back-off
UpAllowedNoDelay(up, elapsed, upDelay) == up

\* the test of line 150 with a back-off that has to be exceeded
UpAllowedStrict(up, elapsed, upDelay) == up /\ elapsed > upDelay

\* MBRAbstract.compute, line 150: the upward switch may proceed
UpAllowed(up, elapsed, upDelay) == ~(~up \/ elapsed < upDelay)

\* A compute that returns false before the congestion test
Unjudged(m, tr) ==
    [ret |-> FALSE, mbr |-> m, tracks |-> tr, judged |-> FALSE, down |-> FALSE,
     up |-> FALSE, error |-> FALSE]

\* MBRAbstract.compute, lines 127-130 and 134-137: onError, then return false
Failed(m, tr) == [Unjudged(m, tr) EXCEPT !.error = TRUE]

\* MBRAbstract.updateTrack, line 205: onError is called for a selected track that
\* metadata.tracks does not hold
WalkError(tr, down) ==
    \/ tr.audio # Undefined /\ MetadataGet(tr.audio) = Undefined
    \/ /\ UpdateTrack(tr.audio, down) = Undefined
       /\ tr.video # Undefined /\ MetadataGet(tr.video) = Undefined

\* MBRAbstract.compute, lines 155-186, that tries the video track first
SwitchVideoFirst(m, tr, down, up) ==
    LET a == UpdateTrack(tr.audio, down)
        v == UpdateTrack(tr.video, down)
    IN IF a = Undefined /\ v = Undefined
       THEN [ret |-> FALSE, mbr |-> m, tracks |-> tr, judged |-> TRUE, down |-> down,
             up |-> up, error |-> WalkError(tr, down)]
       ELSE [ret |-> TRUE,
             mbr |-> IF down THEN [m EXCEPT !.upDelay = GrowUpDelay(m)] ELSE m,
             tracks |-> IF v # Undefined THEN [tr EXCEPT !.video = v]
                        ELSE [tr EXCEPT !.audio = a],
             judged |-> TRUE, down |-> down, up |-> up, error |-> WalkError(tr, down)]

\* MBRAbstract.compute, lines 155-186: [ret, mbr, tracks, judged, down, up]
Switch(m, tr, down, up) ==
    LET a == UpdateTrack(tr.audio, down)
        v == UpdateTrack(tr.video, down)
    IN IF a = Undefined /\ v = Undefined
       THEN [ret |-> FALSE, mbr |-> m, tracks |-> tr, judged |-> TRUE, down |-> down,
             up |-> up, error |-> WalkError(tr, down)]
       ELSE [ret |-> TRUE,
             mbr |-> IF down THEN [m EXCEPT !.upDelay = GrowUpDelay(m)] ELSE m,
             tracks |-> IF a # Undefined THEN [tr EXCEPT !.audio = a]
                        ELSE [tr EXCEPT !.video = v],
             judged |-> TRUE, down |-> down, up |-> up, error |-> WalkError(tr, down)]

\* MBRAbstract.compute, lines 149-153 and on, _appreciationTime being set
Appreciate(m, tr, stats, t) ==
    LET u == UpBitrate(m, t - m.appreciationTime, stats)
    IN IF UpAllowed(u.ret, t - m.appreciationTime, m.upDelay)
       THEN Switch(u.mbr, tr, FALSE, u.ret)
       ELSE [ret |-> FALSE, mbr |-> u.mbr, tracks |-> tr, judged |-> TRUE,
             down |-> FALSE, up |-> u.ret, error |-> FALSE]

\* MBRAbstract.compute, lines 139-148 and on, the reference track being resolved
Judge(m, tr, stats, t) ==
    LET d == DownBitrate(m, t - m.testTime, stats)
    IN IF d.ret
       THEN Switch([d.mbr EXCEPT !.appreciationTime = Undefined], tr, TRUE, FALSE)
       ELSE Appreciate([d.mbr EXCEPT !.appreciationTime = IF Truthy(@) THEN @ ELSE t],
                       tr, stats, t)

\* MBRAbstract.compute, lines 121-131: the reference track is looked up again
Adopt(m, track, t) ==
    IF m.mTrack = Undefined \/ m.mTrack # track
    THEN [m EXCEPT !.appreciationTime = Undefined, !.testTime = t,
                   !.mTrack = MetadataGet(track)]
    ELSE m

\* MBRAbstract.compute, lines 133-187, that goes on without the statistics
ResolvedWithoutStats(m, tr, stats, t) ==
    IF m.mTrack = Undefined THEN Failed(m, tr)
    ELSE Judge(m, tr, stats, t)

\* MBRAbstract.compute, lines 133-187, for the fields m after lines 121-131
Resolved(m, tr, stats, t) ==
    IF m.mTrack = Undefined \/ ~stats.present THEN Failed(m, tr)
    ELSE Judge(m, tr, stats, t)

\* const track = tracks.video ?? tracks.audio
Reference(tr) == IF tr.video # Undefined THEN tr.video ELSE tr.audio

\* MBRAbstract.compute: [ret, mbr, tracks, judged, down, up]
MBRCompute(m, tr, stats, t) ==
    IF Reference(tr) = Undefined
    THEN Unjudged([m EXCEPT !.mTrack = Undefined], tr)
    ELSE Resolved(Adopt(m, Reference(tr), t), tr, stats, t)

\* MBRAbstract.reset
\* MBRAbstract.reset that leaves _upDelay as it is
MBRResetResultKeepDelay(m) == [m EXCEPT !.mTrack = Undefined]

MBRResetResult(m) == [m EXCEPT !.upDelay = 0, !.mTrack = Undefined]

-----------------------------------------------------------------------------
(* Calls on the track selector *)

MaxClock == 25000
MaxSameInstant == 1

MBRParamChoices ==
    {[learningUpStep |-> Undefined, maximumUpDelay |-> Undefined],
     [learningUpStep |-> 6000, maximumUpDelay |-> 8000]}

Selections ==
    {[audio |-> Undefined, video |-> 3],
     [audio |-> 4, video |-> 2], [audio |-> 5, video |-> Undefined],
     [audio |-> Undefined, video |-> Undefined],
     [audio |-> Undefined, video |-> AbsentTrack]}

NoStats ==
    [present |-> FALSE, packetsLost |-> Undefined, nackCount |-> Undefined,
     keyFramesDecoded |-> Undefined]

\* The statistics of the reference track: absent, or an RTCInboundRtpStreamStats
StatsInputs ==
    {NoStats} \cup
    [present : {TRUE}, packetsLost : {Undefined, 1, 2}, nackCount : {Undefined, 0, 1},
     keyFramesDecoded : {Undefined}] \cup
    [present : {TRUE}, packetsLost : {1}, nackCount : {0}, keyFramesDecoded : {1, 2}]

MBRClockSteps == {0, 6000}

NoMCall ==
    [op |-> "new", n |-> 0, tracks |-> [audio |-> Undefined, video |-> Undefined],
     stats |-> NoStats, at |-> 0, ret |-> FALSE, judged |-> FALSE, down |-> FALSE,
     up |-> FALSE, upDelay |-> 0, error |-> FALSE, afterError |-> FALSE,
     twinned |-> FALSE, same |-> TRUE]

NoStreak == [ref |-> Undefined, start |-> 0]

\* The congestion-free streak after a compute on reference ref with outcome r
StreakAfter(s, ref, r, t) ==
    IF ~r.judged THEN (IF ref # Undefined /\ ref = s.ref THEN s ELSE NoStreak)
    ELSE IF r.down THEN NoStreak
    ELSE IF s.ref = ref THEN s
    ELSE [ref |-> ref, start |-> t]

\* The track selector while the bitrate controller is explored
\* No selector is being compared with the one in use
NoTwin ==
    [active |-> FALSE,
     mbr |-> NewMBR([learningUpStep |-> Undefined, maximumUpDelay |-> Undefined])]

\* new MBRLinear(params) with the parameters m was constructed with
NewTwin(m) ==
    [active |-> TRUE,
     mbr |-> NewMBR([learningUpStep |-> m.learningUpStep,
                     maximumUpDelay |-> m.maximumUpDelay])]

\* The two computes return the same value, leave the same selection and the
\* same upDelay
SameOutcome(r, q) ==
    /\ r.ret = q.ret
    /\ r.tracks = q.tracks
    /\ r.mbr.upDelay = q.mbr.upDelay

\* The twin after it was given the call that gave r; the comparison ends at
\* the first difference
TwinAfter(r, q) ==
    IF twin.active /\ SameOutcome(r, q) THEN [active |-> TRUE, mbr |-> q.mbr] ELSE NoTwin

\* A call on the sample window: the window before it and the value given or returned
NoNCall == [op |-> "new", value |-> 0, pre |-> NewNumbers(Undefined), popped |-> FALSE]

\* No sample window is used on its own
NoWindow ==
    /\ nums = NewNumbers(Undefined)
    /\ nlast = NoNCall
    /\ npush = 0
    /\ npop = 0
    /\ nresized = FALSE

\* A track object: its fields type, codec, maxbps, up and down (idx of the track
\* referred to, or Undefined)
NoTrack == [type |-> "", codec |-> "", maxbps |-> 0, up |-> Undefined, down |-> Undefined]

\* new Metadata(): no track; objs holds every track object made by the latest
\* message, those removed from the Map included (references keep them alive)
NewMetadata ==
    [tracks |-> {}, audios |-> <<>>, videos |-> <<>>,
     objs |-> [i \in VideoTracks \cup AudioTracks |-> NoTrack]]

\* No metadata has been received
NoLadder ==
    /\ meta = NewMetadata
    /\ mdlast = "new"

\* new Streamer(): no connector, no controller, nothing received
NewStreamer ==
    [running |-> FALSE, controller |-> FALSE, videoBitrate |-> Undefined,
     videoBitrateConstraint |-> Undefined, videoBitrateFixed |-> FALSE,
     mediaReport |-> FALSE]

\* An operation on the streamer: sent is the value given to
\* controller.setVideoBitrate, threw tells that the operation threw an Error
NoSCall == [op |-> "new", sent |-> Undefined, threw |-> FALSE]

\* No streamer is used
NoStreamer ==
    /\ streamer = NewStreamer
    /\ slast = NoSCall
    /\ pinned = Undefined

\* new Player(): no connector, no controller, no track selected
NewPlayer ==
    [running |-> FALSE, controllable |-> FALSE, opened |-> FALSE, controller |-> FALSE,
     mbr |-> FALSE, metadata |-> FALSE, audioTrack |-> Undefined, videoTrack |-> Undefined,
     audioTrackFixed |-> FALSE, videoTrackFixed |-> FALSE, pending |-> FALSE]

\* An operation on the player: computed tells that mbr.compute was called, ret is
\* what it returned, sent that controller.setTracks was called, threw that the
\* operation threw an Error
NoPCall == [op |-> "new", computed |-> FALSE, ret |-> FALSE, sent |-> FALSE, threw |-> FALSE]

\* The user has fixed no track
NoneFixed == [audio |-> Undefined, video |-> Undefined]

\* No player is used
NoPlayer ==
    /\ player = NewPlayer
    /\ plast = NoPCall
    /\ pfixed = NoneFixed

\* new WebSocketReliable(): no socket, closed, nothing queued; wire is what the
\* socket of the current connection was given and the events fired since open
NewSocket ==
    [ws |-> FALSE, opened |-> FALSE, closed |-> TRUE, queueing |-> <<>>,
     queueingBytes |-> 0, wire |-> <<>>]

\* An operation on the socket and the message it was given
NoWCall == [op |-> "new", message |-> ""]

\* No socket is used
NoSocket ==
    /\ ws = NewSocket
    /\ wlast = NoWCall

\* A host of ABRLinear and the history of the streak of loss-free reports:
\*  bitrate  - the current bitrate of the host, given to the next compute
\*  anchorAt - clock value of the first loss-free unconstrained compute since the
\*             latest lossy report, constraint clamp, reset or construction
\*  inc      - what the latest upward probe of the streak added to its input
\*  prior    - loss of the latest lossy report, unless a loss-free report or a
\*             reset came since
\*  before   - the compute that preceded the latest one
\*  recoveredAt - clock value of the latest compute of ABRGrade whose recovery
\*             step gave a bitrate, unless a reset or a lengthening of the
\*             back-off came since
\*  computes - computes made
\*  congestions - lossy reports and constraint clamps counted by the host that
\*             runs for ever
NewHost(bitrate) ==
    [bitrate |-> bitrate, anchorAt |-> Undefined, inc |-> Undefined, prior |-> Undefined,
     before |-> "none", latest |-> "none", computes |-> 0, congestions |-> 0,
     recoveredAt |-> Undefined]

\* No host is driving ABRLinear
NoHost == host = NewHost(Undefined)

NoExt == NoPlayer /\ NoSocket /\ NoHost

NoLibrary == NoWindow /\ NoLadder /\ NoStreamer /\ NoExt

NoSelector ==
    /\ mbr = NewMBR([learningUpStep |-> Undefined, maximumUpDelay |-> Undefined])
    /\ tracks = [audio |-> Undefined, video |-> Undefined]
    /\ mlast = NoMCall
    /\ streak = NoStreak
    /\ sinceDown = FALSE
    /\ nsame = 0
    /\ twin = NoTwin

-----------------------------------------------------------------------------
(* The bitrate controller as a state machine *)

InitABR ==
    \E k \in Kinds, p \in ParamChoices, rs \in ParamRecoverySteps :
        LET c == Constructed(k, [startup |-> p.startup, minimum |-> p.minimum,
                                 maximum |-> p.maximum, recoverySteps |-> rs])
        IN /\ (k = "grade" => rs = Undefined)
           /\ kind = k
           /\ startup = c.startup
           /\ minimum = c.minimum
           /\ maximum = c.maximum
           /\ recoverySteps = c.recoverySteps
           /\ appreciationDuration = c.appreciationDuration
           /\ bitrateValue = c.bitrateValue
           /\ constraint = c.constraint
           /\ lvars = c.lvars
           /\ gvars = c.gvars
           /\ constructed = [bitrateValue |-> c.bitrateValue, constraint |-> c.constraint,
                             lvars |-> c.lvars, gvars |-> c.gvars]
           /\ now = 1000
           /\ last = NoCall
           /\ lastSet = NoSet
           /\ phase = [origin |-> "new", computes |-> 0]
           /\ lossHist = NoLoss
           /\ nsets = 0
           /\ NoSelector
           /\ NoLibrary

\* compute(bitrate, bitrateConstraint, mediaReport) at clock value now + dt
Compute(bitrate, bitrateConstraint, loss, dt) ==
    /\ now + dt <= Horizon(kind)
    /\ LET r == ComputeResult(kind, lvars, gvars, bitrate, bitrateConstraint, loss,
                              now + dt, constraint, Bounds, recoverySteps)
       IN /\ lvars' = r.lvars
          /\ gvars' = r.gvars
          /\ bitrateValue' = bitrate
          /\ constraint' = bitrateConstraint
          /\ last' = [NoCall EXCEPT !.op = "compute", !.bitrate = bitrate,
                                    !.bitrateConstraint = bitrateConstraint,
                                    !.loss = loss, !.ret = r.ret, !.at = now + dt,
                                    !.pre = Bounds, !.resolution = r.resolution]
    /\ now' = now + dt
    /\ phase' = [phase EXCEPT !.computes = Min2(@ + 1, 2)]
    /\ lossHist' = IF kind = "linear"
                   THEN LossAfterCompute(lossHist, bitrate, bitrateConstraint, loss)
                   ELSE lossHist
    /\ lastSet' = NoSet
    /\ UNCHANGED <<kind, startup, minimum, maximum, recoverySteps, appreciationDuration,
                   constructed, nsets>>
    /\ UNCHANGED <<mbrVars, libVars>>

\* The host calls compute
ComputeAny ==
    \E bitrate \in BitrateInputs, bc \in ConstraintInputs(kind), loss \in LossInputs(kind),
       dt \in ClockSteps(kind) : Compute(bitrate, bc, loss, dt)

\* reset()
Reset ==
    /\ last.op # "reset"
    /\ LET r == ResetResult(kind, lvars, gvars, recoverySteps)
       IN /\ bitrateValue' = r.bitrateValue
          /\ constraint' = r.constraint
          /\ lvars' = r.lvars
          /\ gvars' = r.gvars
    /\ last' = [NoCall EXCEPT !.op = "reset", !.at = now, !.pre = Bounds,
                              !.dirty = (StrategyState # constructed)]
    /\ phase' = [origin |-> "reset", computes |-> 0]
    /\ lossHist' = NoLoss
    /\ lastSet' = NoSet
    /\ UNCHANGED <<kind, startup, minimum, maximum, recoverySteps, appreciationDuration,
                   now, constructed, nsets>>
    /\ UNCHANGED <<mbrVars, libVars>>

Assign(op, b, h) ==
    /\ nsets < MaxSets
    /\ nsets' = nsets + 1
    /\ startup' = b.startup
    /\ minimum' = b.minimum
    /\ maximum' = b.maximum
    /\ lastSet' = [op |-> op, assigned |-> h, pre |-> Bounds]
    /\ last' = [NoCall EXCEPT !.op = "set"]
    /\ UNCHANGED <<kind, recoverySteps, appreciationDuration, bitrateValue, constraint,
                   lvars, gvars, now, phase, constructed, lossHist>>
    /\ UNCHANGED <<mbrVars, libVars>>

\* controller.startup = h/2
SetStartup == \E h \in SetterHalves : Assign("startup", SetStartupValue(Bounds, h), h)

\* controller.minimum = h/2
SetMinimum == \E h \in SetterHalves : Assign("minimum", SetMinimumValue(Bounds, h), h)

\* controller.maximum = h/2
SetMaximum == \E h \in SetterHalves : Assign("maximum", SetMaximumValue(Bounds, h), h)

NextABR == ComputeAny \/ Reset \/ SetStartup \/ SetMinimum \/ SetMaximum

SpecABR == InitABR /\ [][NextABR]_vars

-----------------------------------------------------------------------------
(* The track selector as a state machine *)

\* The bitrate controller while the track selector is explored
NoController ==
    LET c == Constructed("linear", [startup |-> Undefined, minimum |-> Undefined,
                                    maximum |-> Undefined, recoverySteps |-> Undefined])
    IN /\ kind = "linear"
       /\ startup = c.startup
       /\ minimum = c.minimum
       /\ maximum = c.maximum
       /\ recoverySteps = c.recoverySteps
       /\ appreciationDuration = c.appreciationDuration
       /\ bitrateValue = c.bitrateValue
       /\ constraint = c.constraint
       /\ lvars = c.lvars
       /\ gvars = c.gvars
       /\ constructed = [bitrateValue |-> c.bitrateValue, constraint |-> c.constraint,
                         lvars |-> c.lvars, gvars |-> c.gvars]
       /\ last = NoCall
       /\ lastSet = NoSet
       /\ phase = [origin |-> "new", computes |-> 0]
       /\ lossHist = NoLoss
       /\ nsets = 0

InitMBR ==
    /\ NoController
    /\ NoLibrary
    /\ now = 1000
    /\ \E p \in MBRParamChoices : mbr = NewMBR(p)
    /\ tracks \in Selections
    /\ mlast = NoMCall
    /\ streak = NoStreak
    /\ sinceDown = FALSE
    /\ nsame = 0
    /\ twin = NoTwin

\* compute(metadata, tracks, stats) at clock value now + dt
MBRComputeAt(stats, dt) ==
    /\ now + dt <= MaxClock
    /\ dt = 0 => nsame < MaxSameInstant
    /\ LET r == MBRCompute(mbr, tracks, stats, now + dt)
           q == MBRCompute(twin.mbr, tracks, stats, now + dt)
       IN /\ mbr' = r.mbr
          /\ twin' = TwinAfter(r, q)
          /\ tracks' = r.tracks
          /\ mlast' = [op |-> "compute", n |-> 1 - mlast.n, tracks |-> tracks,
                       stats |-> stats, at |-> now + dt, ret |-> r.ret,
                       judged |-> r.judged, down |-> r.down, up |-> r.up,
                       upDelay |-> mbr.upDelay, error |-> r.error,
                       afterError |-> mlast.error, twinned |-> twin.active,
                       same |-> twin.active => SameOutcome(r, q)]
          /\ streak' = StreakAfter(streak, Reference(tracks), r, now + dt)
          /\ sinceDown' = IF r.ret THEN r.down ELSE sinceDown
    /\ now' = now + dt
    /\ nsame' = IF dt = 0 THEN nsame + 1 ELSE nsame
    /\ UNCHANGED <<abrOnly, libVars>>

\* The player calls compute with the latest statistics
MBRComputeAny == \E stats \in StatsInputs, dt \in MBRClockSteps : MBRComputeAt(stats, dt)

\* reset(), tw being the selector the later computes are compared with
ResetWith(tw) ==
    /\ mlast.op = "compute"
    /\ mbr' = MBRResetResult(mbr)
    /\ twin' = tw
    /\ mlast' = [NoMCall EXCEPT !.op = "reset", !.n = mlast.n, !.upDelay = mbr.upDelay]
    /\ streak' = NoStreak
    /\ sinceDown' = FALSE
    /\ UNCHANGED <<abrVars, libVars, tracks, nsame>>

\* The caller selects other tracks between two computes
Select ==
    /\ mlast.op # "select"
    /\ \E sel \in Selections \ {tracks} : tracks' = sel
    /\ mlast' = [NoMCall EXCEPT !.op = "select", !.n = mlast.n, !.error = mlast.error]
    /\ sinceDown' = FALSE
    /\ UNCHANGED <<abrVars, libVars, mbr, streak, nsame, twin>>

\* reset()
MBRReset == ResetWith(NoTwin)

NextMBR == MBRComputeAny \/ MBRReset \/ Select

SpecMBR == InitMBR /\ [][NextMBR]_vars

\* ---- Track selector beside a newly constructed one ----

\* The reports given to the two selectors
TwinStatsInputs == {s \in StatsInputs : s.nackCount = Undefined \/ s.keyFramesDecoded # Undefined}

\* compute on both selectors with the latest statistics
TwinCompute == \E stats \in TwinStatsInputs, dt \in MBRClockSteps : MBRComputeAt(stats, dt)

\* reset(), and a selector constructed with the same parameters
TwinReset == ResetWith(NewTwin(mbr))

NextTwin == TwinCompute \/ TwinReset \/ Select

SpecTwin == InitMBR /\ [][NextTwin]_vars

\* ---- Sample window (Queue, Numbers) used on its own ----

\* Queue.capacity setter, which Numbers inherits
QueueSetCapacity(n, value) ==
    [n EXCEPT !.capacity = value,
              !.queue = IF value # Undefined /\ Len(@) > value
                        THEN SubSeq(@, Len(@) - value + 1, Len(@)) ELSE @]

\* Numbers.clear (with Queue.clear)
NumbersClear(n) == [n EXCEPT !.min = 0, !.max = 0, !.sum = 0, !.queue = <<>>]

WindowCapacities == {Undefined, 2, 3}

SampleValues == {-2, 1, 2, 3}

MaxPushes == 4

InitNumbers ==
    /\ NoController
    /\ NoSelector
    /\ NoExt
    /\ now = 1000
    /\ \E cap \in WindowCapacities : nums = NewNumbers(cap)
    /\ nlast = NoNCall
    /\ npush = 0
    /\ npop = 0
    /\ nresized = FALSE
    /\ NoLadder
    /\ NoStreamer

\* push(value)
NumPush ==
    /\ npush < MaxPushes
    /\ \E value \in SampleValues :
          /\ nums' = NumbersPush(nums, value)
          /\ nlast' = [op |-> "push", value |-> value, pre |-> nums, popped |-> FALSE]
    /\ npush' = npush + 1
    /\ UNCHANGED <<abrVars, mbrVars, metaVars, strVars, extVars, npop, nresized>>

\* pop()
NumPop ==
    /\ nums' = NumbersPop(nums)
    /\ nlast' = [op |-> "pop", value |-> IF nums.queue = <<>> THEN 0 ELSE Head(nums.queue),
                 pre |-> nums, popped |-> nums.queue # <<>>]
    /\ npop' = IF nums.queue # <<>> THEN npop + 1 ELSE npop
    /\ UNCHANGED <<abrVars, mbrVars, metaVars, strVars, extVars, npush, nresized>>

\* clear()
NumClear ==
    /\ nlast.op # "clear"
    /\ nums' = NumbersClear(nums)
    /\ nlast' = [NoNCall EXCEPT !.op = "clear", !.pre = nums]
    /\ npush' = 0
    /\ npop' = 0
    /\ UNCHANGED <<abrVars, mbrVars, metaVars, strVars, extVars, nresized>>

\* capacity = value
NumSetCapacity ==
    /\ \E value \in WindowCapacities \ {nums.capacity} :
          nums' = QueueSetCapacity(nums, value)
    /\ nlast' = [NoNCall EXCEPT !.op = "capacity", !.pre = nums]
    /\ nresized' = TRUE
    /\ UNCHANGED <<abrVars, mbrVars, metaVars, strVars, extVars, npush, npop>>

\* A read of average, which memoizes it
NumAverage ==
    /\ nums.average = NoAverage
    /\ nums' = ReadAverage(nums)
    /\ nlast' = [NoNCall EXCEPT !.op = "average", !.pre = nums]
    /\ UNCHANGED <<abrVars, mbrVars, metaVars, strVars, extVars, npush, npop, nresized>>

NextNumbers == NumPush \/ NumPop \/ NumClear \/ NumSetCapacity \/ NumAverage

SpecNumbers == InitNumbers /\ [][NextNumbers]_vars

\* ---- Track ladder (StreamMetadata, Metadata) ----

\* String.toLowerCase on the codec names in use
ToLowerCase(codec) ==
    CASE codec = "H264" -> "h264"
      [] codec = "AAC" -> "aac"
      [] OTHER -> codec

\* Array.sort with sortByMAXBPS (descending maxbps, stable): x put in its place
RECURSIVE InsertByMAXBPS(_, _, _)
InsertByMAXBPS(sorted, x, objs) ==
    IF sorted = <<>> THEN <<x>>
    ELSE IF objs[x].maxbps - objs[Head(sorted)].maxbps > 0
         THEN <<x>> \o sorted
         ELSE <<Head(sorted)>> \o InsertByMAXBPS(Tail(sorted), x, objs)

RECURSIVE SortByMAXBPS(_, _, _)
SortByMAXBPS(sorted, medias, objs) ==
    IF medias = <<>> THEN sorted
    ELSE SortByMAXBPS(InsertByMAXBPS(sorted, Head(medias), objs), Tail(medias), objs)

\* The index of track idx in medias, 0 when it is not there
Position(medias, idx) ==
    IF \E k \in 1..Len(medias) : medias[k] = idx
    THEN CHOOSE k \in 1..Len(medias) : medias[k] = idx
    ELSE 0

\* StreamMetadata._addSortedTrack on the sorted medias: the track objects linked
LinkSorted(medias, objs) ==
    [idx \in DOMAIN objs |->
        LET k == Position(medias, idx)
        IN IF k = 0 THEN objs[idx]
           ELSE [objs[idx] EXCEPT !.up = IF k > 1 THEN medias[k - 1] ELSE @,
                                  !.down = IF k < Len(medias) THEN medias[k + 1] ELSE @]]

\* The track objects parsed from a message
Parsed(data) ==
    [idx \in VideoTracks \cup AudioTracks |->
        [type |-> IF idx \in VideoTracks THEN "video" ELSE "audio",
         codec |-> data[idx].codec, maxbps |-> data[idx].maxbps,
         up |-> Undefined, down |-> Undefined]]

\* The tracks of a message in the order the message lists them
Listed(ids) == IF ids = VideoTracks THEN <<1, 2, 3>> ELSE <<4, 5>>

\* StreamMetadata: the onMessage handler of the WebSocket
MetadataOf(data) ==
    LET audios == SortByMAXBPS(<<>>, Listed(AudioTracks), Parsed(data))
        videos == SortByMAXBPS(<<>>, Listed(VideoTracks), Parsed(data))
    IN [tracks |-> VideoTracks \cup AudioTracks,
        audios |-> audios,
        videos |-> videos,
        objs |-> LinkSorted(videos, LinkSorted(audios, Parsed(data)))]

\* medias without its element at index i
Splice(medias, i) == SubSeq(medias, 1, i - 1) \o SubSeq(medias, i + 1, Len(medias))

\* filter(tracks, medias, codecs) of Metadata.ts, from index i on
RECURSIVE FilterFrom(_, _, _, _, _)
FilterFrom(map, medias, i, codecs, objs) ==
    IF i > Len(medias) THEN [tracks |-> map, medias |-> medias]
    ELSE IF ToLowerCase(objs[medias[i]].codec) \notin codecs
         THEN FilterFrom(map \ {medias[i]}, Splice(medias, i), i, codecs, objs)
         ELSE FilterFrom(map, medias, i + 1, codecs, objs)

\* Metadata.subset with an if in place of each while: one track skipped at most
NearestOneStep(objs, map, p, dir) ==
    IF p = Undefined \/ p \in map THEN p
    ELSE IF dir = "up" THEN objs[p].up ELSE objs[p].down

\* Metadata.subset, the while loops: the nearest track from p on that the Map holds
RECURSIVE Nearest(_, _, _, _)
Nearest(objs, map, p, dir) ==
    IF p = Undefined \/ p \in map THEN p
    ELSE Nearest(objs, map, IF dir = "up" THEN objs[p].up ELSE objs[p].down, dir)

\* Metadata.subset(codecs), codecs being a Set: the copy shares the Map, the
\* arrays and the track objects with the metadata it is made from.  The loop
\* over the Map writes the tracks it holds and reads those it does not hold,
\* so that its order does not matter.
Subset(m, codecs) ==
    LET a == FilterFrom(m.tracks, m.audios, 1, codecs, m.objs)
        v == FilterFrom(a.tracks, m.videos, 1, codecs, m.objs)
    IN [tracks |-> v.tracks,
        audios |-> a.medias,
        videos |-> v.medias,
        objs |-> [idx \in DOMAIN m.objs |->
                    IF idx \in v.tracks
                    THEN [m.objs[idx] EXCEPT
                            !.up = Nearest(m.objs, v.tracks, @, "up"),
                            !.down = Nearest(m.objs, v.tracks, @, "down")]
                    ELSE m.objs[idx]]]

VideoCodecs == {"H264", "vp8"}

AudioCodecs == {"opus", "AAC"}

VideoBitrates == {1000000, 2000000}

AudioBitrates == {64000, 128000}

\* The tracks a message describes
MessageInputs ==
    {d \in [VideoTracks \cup AudioTracks ->
               [codec : VideoCodecs \cup AudioCodecs,
                maxbps : VideoBitrates \cup AudioBitrates]] :
        /\ \A idx \in VideoTracks :
              d[idx].codec \in VideoCodecs /\ d[idx].maxbps \in VideoBitrates
        /\ \A idx \in AudioTracks :
              d[idx].codec \in AudioCodecs /\ d[idx].maxbps \in AudioBitrates}

\* The sets of codecs a player supports
CodecSets == SUBSET {"h264", "vp8", "opus", "aac"}

InitLadder ==
    /\ NoController
    /\ NoSelector
    /\ NoWindow
    /\ NoExt
    /\ now = 1000
    /\ meta = NewMetadata
    /\ mdlast = "new"
    /\ NoStreamer

\* The metadata channel delivers a message
OnMessage ==
    /\ mdlast = "new"
    /\ \E data \in MessageInputs : meta' = MetadataOf(data)
    /\ mdlast' = "message"
    /\ UNCHANGED <<abrVars, mbrVars, numVars, strVars, extVars>>

\* The metadata channel closes: new Metadata()
OnClose ==
    /\ mdlast # "new"
    /\ meta' = NewMetadata
    /\ mdlast' = "new"
    /\ UNCHANGED <<abrVars, mbrVars, numVars, strVars, extVars>>

\* subset(codecs)
MetaSubset ==
    /\ mdlast # "new"
    /\ \E codecs \in CodecSets : meta' = Subset(meta, codecs)
    /\ mdlast' = "subset"
    /\ UNCHANGED <<abrVars, mbrVars, numVars, strVars, extVars>>

\* subset() without codecs: a copy
MetaCopy ==
    /\ mdlast \notin {"new", "copy"}
    /\ mdlast' = "copy"
    /\ UNCHANGED <<abrVars, mbrVars, numVars, strVars, extVars, meta>>

NextLadder == OnMessage \/ OnClose \/ MetaSubset \/ MetaCopy

SpecLadder == InitLadder /\ [][NextLadder]_vars

\* ---- Streamer ----

\* Streamer.stop that leaves _videoBitrate and _videoBitrateConstraint as they are
StoppedKeepBitrate(s) ==
    [s EXCEPT !.running = FALSE, !.controller = FALSE, !.mediaReport = FALSE]

\* Streamer.stop on a running streamer; _videoBitrateFixed is left as it is
Stopped(s) ==
    [s EXCEPT !.running = FALSE, !.controller = FALSE, !.mediaReport = FALSE,
              !.videoBitrate = Undefined, !.videoBitrateConstraint = Undefined]

\* Streamer.start, with a connector that is a controller or not
Started(s, controllable) ==
    [(IF s.running THEN Stopped(s) ELSE s) EXCEPT
        !.videoBitrateFixed = FALSE, !.running = TRUE, !.controller = controllable]

\* The videoBitrate setter: the streamer after it, the value sent to the
\* controller and whether it threw
AssignVideoBitrate(s, value) ==
    IF value = s.videoBitrate THEN [s |-> s, sent |-> Undefined, threw |-> FALSE]
    ELSE IF ~s.controller THEN [s |-> s, sent |-> Undefined, threw |-> TRUE]
    ELSE IF value = Undefined
         THEN [s |-> [s EXCEPT !.videoBitrateFixed = FALSE], sent |-> Undefined,
               threw |-> FALSE]
         ELSE [s |-> [s EXCEPT !.videoBitrateFixed = TRUE, !.videoBitrate = value],
               sent |-> value, threw |-> FALSE]

\* Streamer._computeVideoBitrate, abr.compute returning ret
ComputeVideoBitrate(s, ret) ==
    IF ~s.controller \/ s.videoBitrateFixed THEN [s |-> s, sent |-> Undefined]
    ELSE IF ret # s.videoBitrate
         THEN [s |-> [s EXCEPT !.videoBitrate = ret], sent |-> ret]
         ELSE [s |-> s, sent |-> Undefined]

\* The bitrates assigned by the user, returned by abr.compute or announced by
\* the server
VideoBitrateInputs == {1000000, 2000000}

InitStreamer ==
    /\ NoController
    /\ NoSelector
    /\ NoWindow
    /\ NoLadder
    /\ NoExt
    /\ now = 1000
    /\ streamer = NewStreamer
    /\ slast = NoSCall
    /\ pinned = Undefined

\* start(stream, params, adaptiveBitrate)
Start ==
    /\ \E controllable \in BOOLEAN : streamer' = Started(streamer, controllable)
    /\ slast' = [NoSCall EXCEPT !.op = "start"]
    /\ pinned' = Undefined
    /\ UNCHANGED <<abrVars, mbrVars, numVars, metaVars, extVars>>

\* stop(), called by the user or by the onClose handler of the connector
Stop ==
    /\ streamer.running
    /\ streamer' = Stopped(streamer)
    /\ slast' = [NoSCall EXCEPT !.op = "stop"]
    /\ pinned' = Undefined
    /\ UNCHANGED <<abrVars, mbrVars, numVars, metaVars, extVars>>

\* videoBitrate = value
SetVideoBitrate ==
    /\ \E value \in VideoBitrateInputs \cup {Undefined} :
          LET r == AssignVideoBitrate(streamer, value)
          IN /\ streamer' = r.s
             /\ slast' = [op |-> "assign", sent |-> r.sent, threw |-> r.threw]
             /\ pinned' = IF streamer.controller THEN value ELSE pinned
    /\ UNCHANGED <<abrVars, mbrVars, numVars, metaVars, extVars>>

\* The onOpen handler of the controller
OnOpen ==
    /\ streamer.controller
    /\ \E ret \in VideoBitrateInputs :
          LET r == ComputeVideoBitrate(streamer, ret)
          IN /\ streamer' = r.s
             /\ slast' = [op |-> "open", sent |-> r.sent, threw |-> FALSE]
    /\ UNCHANGED <<abrVars, mbrVars, numVars, metaVars, extVars, pinned>>

\* The onMediaReport handler of the controller
OnMediaReport ==
    /\ streamer.controller
    /\ \E ret \in VideoBitrateInputs :
          LET r == ComputeVideoBitrate([streamer EXCEPT !.mediaReport = TRUE], ret)
          IN /\ streamer' = r.s
             /\ slast' = [op |-> "report", sent |-> r.sent, threw |-> FALSE]
    /\ UNCHANGED <<abrVars, mbrVars, numVars, metaVars, extVars, pinned>>

\* The onVideoBitrate handler of the controller
OnVideoBitrate ==
    /\ streamer.controller
    /\ \E vb \in VideoBitrateInputs, c \in VideoBitrateInputs :
          streamer' = [streamer EXCEPT !.videoBitrate = vb, !.videoBitrateConstraint = c]
    /\ slast' = [NoSCall EXCEPT !.op = "bitrate"]
    /\ UNCHANGED <<abrVars, mbrVars, numVars, metaVars, extVars, pinned>>

NextStreamer == Start \/ Stop \/ SetVideoBitrate \/ OnOpen \/ OnMediaReport \/ OnVideoBitrate

SpecStreamer == InitStreamer /\ [][NextStreamer]_vars

\* ---- Player ----

\* Player.stop on a running player; _controller and the fixed flags are left
\* as they are
PlayerStopped(p) ==
    [p EXCEPT !.running = FALSE, !.controllable = FALSE, !.opened = FALSE,
              !.mbr = FALSE, !.pending = FALSE, !.metadata = FALSE,
              !.audioTrack = Undefined, !.videoTrack = Undefined]

\* Player.start with a connector that is a controller or not, and with a
\* multi-bitrate implementation or none
PlayerStarted(p, controllable, multiBitrate) ==
    LET q == [(IF p.running THEN PlayerStopped(p) ELSE p) EXCEPT
                 !.audioTrackFixed = FALSE, !.videoTrackFixed = FALSE,
                 !.running = TRUE, !.controllable = controllable]
    IN IF ~controllable THEN q
       ELSE [q EXCEPT !.mbr = multiBitrate, !.controller = TRUE]

\* The audioTrack and videoTrack setters (media is "audio" or "video"): the player
\* after it, whether controller.setTracks was called and whether it threw
AssignTrack(p, media, idx) ==
    LET fixed == [p EXCEPT !.audioTrackFixed = IF media = "audio" THEN idx # Undefined ELSE @,
                           !.videoTrackFixed = IF media = "video" THEN idx # Undefined ELSE @]
        current == IF media = "audio" THEN p.audioTrack ELSE p.videoTrack
        set == [fixed EXCEPT !.audioTrack = IF media = "audio" THEN idx ELSE @,
                             !.videoTrack = IF media = "video" THEN idx ELSE @]
    IN IF idx = Undefined \/ current = idx
       THEN [p |-> fixed, sent |-> FALSE, threw |-> FALSE]
       ELSE IF ~p.running THEN [p |-> set, sent |-> FALSE, threw |-> FALSE]
       ELSE IF ~p.controller THEN [p |-> set, sent |-> FALSE, threw |-> TRUE]
       ELSE [p |-> set, sent |-> TRUE, threw |-> FALSE]

\* Player._updateTracks with the tracks the server says it plays
UpdateTracks(p, playing) ==
    IF ~p.metadata THEN p
    ELSE LET audios == playing \cap AudioTracks
             videos == playing \cap VideoTracks
         IN [p EXCEPT !.audioTrack = IF Cardinality(audios) = 1
                                     THEN CHOOSE a \in audios : TRUE ELSE @,
                      !.videoTrack = IF Cardinality(videos) = 1
                                     THEN CHOOSE v \in videos : TRUE ELSE @]

\* The selection the onPlaying handler gives to mbr.compute
ComputeTracks(p) ==
    [audio |-> IF p.audioTrackFixed THEN Undefined ELSE p.audioTrack,
     video |-> IF p.videoTrackFixed THEN Undefined ELSE p.videoTrack]

\* What mbr.compute may do with the selection tr: return false and leave it, or
\* move one selected track to a neighbour of the ladder and return true
ComputeOutcomes(tr) ==
    {[ret |-> FALSE, tracks |-> tr]}
    \cup {[ret |-> TRUE, tracks |-> [tr EXCEPT !.audio = a]] :
              a \in {Up(tr.audio), Down(tr.audio)} \ {Undefined}}
    \cup {[ret |-> TRUE, tracks |-> [tr EXCEPT !.video = v]] :
              v \in {Up(tr.video), Down(tr.video)} \ {Undefined}}

\* The onPlaying handler after its await, mbr.compute having the outcome o
AfterInfos(p, o) ==
    IF p.controller /\ p.metadata /\ o.ret
    THEN [p EXCEPT !.audioTrack = o.tracks.audio, !.videoTrack = o.tracks.video,
                   !.pending = FALSE]
    ELSE [p EXCEPT !.pending = FALSE]

\* The tracks the server says it plays; two of a kind while it switches
PlayingInputs == {{4, 3}, {5, 2}, {4, 2, 3}, {3}}

InitPlayer ==
    /\ NoController
    /\ NoSelector
    /\ NoWindow
    /\ NoLadder
    /\ NoStreamer
    /\ NoSocket
    /\ NoHost
    /\ now = 1000
    /\ player = NewPlayer
    /\ plast = NoPCall
    /\ pfixed = NoneFixed

\* start(params, multiBitrate)
PlayerStart ==
    /\ \E controllable \in BOOLEAN, multiBitrate \in BOOLEAN :
          player' = PlayerStarted(player, controllable, multiBitrate)
    /\ plast' = [NoPCall EXCEPT !.op = "start"]
    /\ pfixed' = NoneFixed
    /\ UNCHANGED <<abrVars, mbrVars, numVars, metaVars, strVars, wsVars, hostVars>>

\* stop(), called by the user or by the onClose handler of the connector
PlayerStop ==
    /\ player.running
    /\ player' = PlayerStopped(player)
    /\ plast' = [NoPCall EXCEPT !.op = "stop"]
    /\ pfixed' = NoneFixed
    /\ UNCHANGED <<abrVars, mbrVars, numVars, metaVars, strVars, wsVars, hostVars>>

\* The connector opens
PlayerOnOpen ==
    /\ player.running /\ ~player.opened
    /\ player' = [player EXCEPT !.opened = TRUE]
    /\ plast' = [NoPCall EXCEPT !.op = "open"]
    /\ UNCHANGED <<abrVars, mbrVars, numVars, metaVars, strVars, wsVars, hostVars, pfixed>>

\* The onMetadata handler of the metadata channel
PlayerOnMetadata ==
    /\ player.running /\ player.opened /\ ~player.metadata
    /\ player' = [player EXCEPT !.metadata = TRUE]
    /\ plast' = [NoPCall EXCEPT !.op = "metadata"]
    /\ UNCHANGED <<abrVars, mbrVars, numVars, metaVars, strVars, wsVars, hostVars, pfixed>>

\* audioTrack = idx
SetAudioTrack ==
    /\ \E idx \in AudioTracks \cup {Undefined} :
          LET r == AssignTrack(player, "audio", idx)
          IN /\ player' = r.p
             /\ plast' = [NoPCall EXCEPT !.op = "audio", !.sent = r.sent, !.threw = r.threw]
             /\ pfixed' = IF player.running THEN [pfixed EXCEPT !.audio = idx] ELSE pfixed
    /\ UNCHANGED <<abrVars, mbrVars, numVars, metaVars, strVars, wsVars, hostVars>>

\* videoTrack = idx
SetVideoTrack ==
    /\ \E idx \in VideoTracks \cup {Undefined} :
          LET r == AssignTrack(player, "video", idx)
          IN /\ player' = r.p
             /\ plast' = [NoPCall EXCEPT !.op = "video", !.sent = r.sent, !.threw = r.threw]
             /\ pfixed' = IF player.running THEN [pfixed EXCEPT !.video = idx] ELSE pfixed
    /\ UNCHANGED <<abrVars, mbrVars, numVars, metaVars, strVars, wsVars, hostVars>>

\* The onPlaying handler of the controller, up to its await
PlayerOnPlaying ==
    /\ player.running /\ player.controllable /\ player.opened /\ ~player.pending
    /\ \E playing \in PlayingInputs :
          LET p == UpdateTracks(player, playing)
          IN player' = [p EXCEPT !.pending = p.mbr /\ ~(p.audioTrackFixed /\ p.videoTrackFixed)]
    /\ plast' = [NoPCall EXCEPT !.op = "playing"]
    /\ UNCHANGED <<abrVars, mbrVars, numVars, metaVars, strVars, wsVars, hostVars, pfixed>>

\* The onPlaying handler resumes with the connection infos it awaited, the same
\* as the previous ones or not
PlayerAfterInfos ==
    /\ player.pending
    /\ \/ /\ player' = [player EXCEPT !.pending = FALSE]
          /\ plast' = [NoPCall EXCEPT !.op = "infos"]
       \/ /\ player.controller /\ player.metadata
          /\ \E o \in ComputeOutcomes(ComputeTracks(player)) :
                /\ player' = AfterInfos(player, o)
                /\ plast' = [NoPCall EXCEPT !.op = "infos", !.computed = TRUE,
                                            !.ret = o.ret, !.sent = o.ret]
    /\ UNCHANGED <<abrVars, mbrVars, numVars, metaVars, strVars, wsVars, hostVars, pfixed>>

NextPlayer ==
    \/ PlayerStart \/ PlayerStop \/ PlayerOnOpen \/ PlayerOnMetadata
    \/ SetAudioTrack \/ SetVideoTrack \/ PlayerOnPlaying \/ PlayerAfterInfos

SpecPlayer == InitPlayer /\ [][NextPlayer]_vars

\* ---- WebSocketReliable ----

\* message.length of the messages in use
MessageLength(message) == IF message = "bc" THEN 2 ELSE 1

\* WebSocketReliable.open: a new WebSocket, connecting
SocketOpen(w) == [w EXCEPT !.closed = FALSE, !.ws = TRUE, !.wire = <<>>]

\* WebSocketReliable.send on an instance that has a socket
SocketSend(w, message, queueing) ==
    IF queueing \/ ~w.opened
    THEN [w EXCEPT !.queueing = Append(@, message),
                   !.queueingBytes = @ + MessageLength(message)]
    ELSE [w EXCEPT !.wire = Append(@, message)]

\* WebSocketReliable.flush
SocketFlush(w) ==
    [w EXCEPT !.wire = IF w.ws THEN @ \o w.queueing ELSE @,
              !.queueing = <<>>, !.queueingBytes = 0]

\* The onopen handler that fires onOpen before it flushes
SocketOnOpenEventFirst(w) ==
    SocketFlush([w EXCEPT !.opened = TRUE, !.wire = Append(@, "onOpen")])

\* The onopen handler of the WebSocket
SocketOnOpen(w) ==
    LET f == SocketFlush([w EXCEPT !.opened = TRUE])
    IN [f EXCEPT !.wire = Append(@, "onOpen")]

\* WebSocketReliable.close on an instance that has a socket and is not closed
SocketClose(w) ==
    [w EXCEPT !.closed = TRUE, !.opened = FALSE, !.queueing = <<>>,
              !.queueingBytes = 0, !.wire = Append(@, "onClose")]

Messages == {"a", "bc"}

MaxMessages == 4

InitSocket ==
    /\ NoController
    /\ NoSelector
    /\ NoWindow
    /\ NoLadder
    /\ NoStreamer
    /\ NoPlayer
    /\ NoHost
    /\ now = 1000
    /\ ws = NewSocket
    /\ wlast = NoWCall

\* open(url), for a first connection or a reconnection
WsOpen ==
    /\ ws.closed
    /\ ws' = SocketOpen(ws)
    /\ wlast' = [NoWCall EXCEPT !.op = "open"]
    /\ UNCHANGED <<abrVars, mbrVars, numVars, metaVars, strVars, playerVars, hostVars>>

\* send(message, queueing); without a socket it throws
WsSend ==
    /\ Len(ws.queueing) + Len(ws.wire) < MaxMessages
    /\ \E message \in Messages, queueing \in BOOLEAN :
          /\ ws' = IF ws.ws THEN SocketSend(ws, message, queueing) ELSE ws
          /\ wlast' = [op |-> IF ws.ws THEN "send" ELSE "throw", message |-> message]
    /\ UNCHANGED <<abrVars, mbrVars, numVars, metaVars, strVars, playerVars, hostVars>>

\* flush() on an opened connection
WsFlush ==
    /\ ws.opened
    /\ ws.queueing # <<>>
    /\ ws' = SocketFlush(ws)
    /\ wlast' = [NoWCall EXCEPT !.op = "flush"]
    /\ UNCHANGED <<abrVars, mbrVars, numVars, metaVars, strVars, playerVars, hostVars>>

\* The connection is established: the onopen handler of the WebSocket
WsOnOpen ==
    /\ ws.ws /\ ~ws.closed /\ ~ws.opened
    /\ ws' = SocketOnOpen(ws)
    /\ wlast' = [NoWCall EXCEPT !.op = "onopen"]
    /\ UNCHANGED <<abrVars, mbrVars, numVars, metaVars, strVars, playerVars, hostVars>>

\* close(error), called by the user or by the onclose handler of the WebSocket
WsClose ==
    /\ ws.ws /\ ~ws.closed
    /\ ws' = SocketClose(ws)
    /\ wlast' = [NoWCall EXCEPT !.op = "close"]
    /\ UNCHANGED <<abrVars, mbrVars, numVars, metaVars, strVars, playerVars, hostVars>>

NextSocket == WsOpen \/ WsSend \/ WsFlush \/ WsOnOpen \/ WsClose

SpecSocket == InitSocket /\ [][NextSocket]_vars

\* ---- ABRLinear driven by a host ----

\* What a compute was, told from its inputs alone
ReportKind(bitrate, bitrateConstraint, loss) ==
    IF bitrate = Undefined THEN "startup"
    ELSE IF Binds(bitrate, bitrateConstraint)
    THEN (IF Truthy(loss) THEN "clamp-lossy" ELSE "clamp")
    ELSE IF Truthy(loss) THEN "lossy" ELSE "free"

\* The history of the host after a compute at clock value t that returned ret;
\* probe tells that the strategy tried to increase
HostAfter(h, bitrateConstraint, loss, t, ret, probe) ==
    LET k == ReportKind(h.bitrate, bitrateConstraint, loss)
        broken == k \in {"clamp", "clamp-lossy", "lossy"}
    IN [bitrate |-> ret,
        anchorAt |-> IF broken THEN Undefined
                     ELSE IF k = "free" /\ h.anchorAt = Undefined THEN t
                     ELSE h.anchorAt,
        inc |-> IF broken THEN Undefined
                ELSE IF probe THEN ret - h.bitrate
                ELSE h.inc,
        prior |-> IF k \in {"lossy", "clamp-lossy"} THEN loss
                  ELSE IF k \in {"free", "clamp"} THEN Undefined
                  ELSE h.prior,
        before |-> h.latest,
        latest |-> k,
        computes |-> h.computes + 1,
        congestions |-> h.congestions,
        recoveredAt |-> h.recoveredAt]

\* ABRParams of the controller the host drives
LinearParamChoices ==
    {[startup |-> 1000000, minimum |-> Undefined, maximum |-> 1200000,
      recoverySteps |-> rs] : rs \in {Undefined, 0}}

\* loss_perc of the reports, in tenths of a percent
LinearLossInputs == {0, 50, 100}

\* bitrate constraints the server announces
LinearConstraintInputs == {Undefined, 800000}

\* time between two computes: shorter than the stability window, or the window
LinearClockSteps == {4000, STABLE_TIMEOUT_MS}

\* a video bitrate the user assigns to the host and then releases
AssignedBitrates == {150000}

MaxNowLinear == 35000
MaxComputes == 5

InitLinear ==
    \E p \in LinearParamChoices :
        LET c == Constructed("linear", p)
        IN /\ kind = "linear"
           /\ startup = c.startup
           /\ minimum = c.minimum
           /\ maximum = c.maximum
           /\ recoverySteps = c.recoverySteps
           /\ appreciationDuration = c.appreciationDuration
           /\ bitrateValue = c.bitrateValue
           /\ constraint = c.constraint
           /\ lvars = c.lvars
           /\ gvars = c.gvars
           /\ constructed = [bitrateValue |-> c.bitrateValue, constraint |-> c.constraint,
                             lvars |-> c.lvars, gvars |-> c.gvars]
           /\ now = 1000
           /\ last = NoCall
           /\ lastSet = NoSet
           /\ phase = [origin |-> "new", computes |-> 0]
           /\ lossHist = NoLoss
           /\ nsets = 0
           /\ host = NewHost(c.startup)
           /\ NoSelector
           /\ NoWindow /\ NoLadder /\ NoStreamer /\ NoPlayer /\ NoSocket

\* The host calls compute(its bitrate, bitrateConstraint, mediaReport) at clock
\* value now + dt and adopts the bitrate returned
HostCompute(bitrateConstraint, loss, dt) ==
    /\ now + dt <= MaxNowLinear
    /\ host.computes < MaxComputes
    /\ LET r == ComputeResult(kind, lvars, gvars, host.bitrate, bitrateConstraint, loss,
                              now + dt, constraint, Bounds, recoverySteps)
       IN /\ lvars' = r.lvars
          /\ gvars' = r.gvars
          /\ bitrateValue' = host.bitrate
          /\ constraint' = bitrateConstraint
          /\ last' = [NoCall EXCEPT !.op = "compute", !.bitrate = host.bitrate,
                                    !.bitrateConstraint = bitrateConstraint,
                                    !.loss = loss, !.ret = r.ret, !.at = now + dt,
                                    !.pre = Bounds, !.resolution = r.resolution]
          /\ host' = HostAfter(host, bitrateConstraint, loss, now + dt, r.ret, r.resolution)
    /\ now' = now + dt
    /\ phase' = [phase EXCEPT !.computes = Min2(@ + 1, 2)]
    /\ lossHist' = LossAfterCompute(lossHist, host.bitrate, bitrateConstraint, loss)
    /\ lastSet' = NoSet
    /\ UNCHANGED <<kind, startup, minimum, maximum, recoverySteps, appreciationDuration,
                   constructed, nsets>>
    /\ UNCHANGED <<mbrVars, numVars, metaVars, strVars, playerVars, wsVars>>

\* A report arrives: the host computes
HostReport ==
    \E bc \in LinearConstraintInputs, loss \in LinearLossInputs, dt \in LinearClockSteps :
        HostCompute(bc, loss, dt)

\* reset() of the controller; the host keeps its bitrate
HostReset ==
    /\ last.op = "compute"
    /\ LET r == ResetResult(kind, lvars, gvars, recoverySteps)
       IN /\ bitrateValue' = r.bitrateValue
          /\ constraint' = r.constraint
          /\ lvars' = r.lvars
          /\ gvars' = r.gvars
    /\ last' = [NoCall EXCEPT !.op = "reset", !.at = now, !.pre = Bounds,
                              !.dirty = (StrategyState # constructed)]
    /\ phase' = [origin |-> "reset", computes |-> 0]
    /\ lossHist' = NoLoss
    /\ lastSet' = NoSet
    /\ host' = [host EXCEPT !.anchorAt = Undefined, !.inc = Undefined,
                            !.prior = Undefined,
                            !.before = host.latest, !.latest = "reset"]
    /\ UNCHANGED <<kind, startup, minimum, maximum, recoverySteps, appreciationDuration,
                   now, constructed, nsets>>
    /\ UNCHANGED <<mbrVars, numVars, metaVars, strVars, playerVars, wsVars>>

\* The user assigns a video bitrate to the host and releases it: the next compute
\* is given the assigned value
HostAssign ==
    /\ last.op = "compute"
    /\ host.bitrate \notin AssignedBitrates
    /\ \E b \in AssignedBitrates : host' = [host EXCEPT !.bitrate = b]
    /\ last' = [last EXCEPT !.op = "assign"]
    /\ UNCHANGED <<kind, startup, minimum, maximum, recoverySteps, appreciationDuration,
                   bitrateValue, constraint, lvars, gvars, now, lastSet, phase,
                   constructed, lossHist, nsets>>
    /\ UNCHANGED <<mbrVars, numVars, metaVars, strVars, playerVars, wsVars>>

NextLinear == HostReport \/ HostReset \/ HostAssign

SpecLinear == InitLinear /\ [][NextLinear]_vars

\* ---- ABRLinear driven for ever by a host ----

\* ABRLinear reads the clock only to compare it with stableTime; so that the
\* host can run for ever the clock is kept relative: the time that passes before
\* a compute is taken off stableTime (0, not stable, stays 0; a time that has
\* come stays a time that has come) and the compute reads the same clock value
Elapse(v, dt) ==
    [v EXCEPT !.stableTime = IF @ = 0 THEN 0 ELSE Max2(1, @ - dt)]

\* ABRParams of the controller: ordered bounds, and bounds the constructor
\* stores although minimum exceeds maximum
LiveParamChoices ==
    {[startup |-> 1000000, minimum |-> 900000, maximum |-> 1200000,
      recoverySteps |-> Undefined],
     [startup |-> 1000000, minimum |-> 1500000, maximum |-> 1200000,
      recoverySteps |-> Undefined]}

LiveLossInputs == {0, 100}
LiveConstraintInputs == {Undefined, 1000000}

\* recoveryFactor grows with every congestion: the link is congested at most
\* so many times
MaxCongestions == 3

\* A lossy report or a constraint below the bitrate
Congestion(k) == k \in {"lossy", "clamp", "clamp-lossy"}

InitLive ==
    \E p \in LiveParamChoices :
        LET c == Constructed("linear", p)
        IN /\ kind = "linear"
           /\ startup = c.startup
           /\ minimum = c.minimum
           /\ maximum = c.maximum
           /\ recoverySteps = c.recoverySteps
           /\ appreciationDuration = c.appreciationDuration
           /\ bitrateValue = c.bitrateValue
           /\ constraint = c.constraint
           /\ lvars = c.lvars
           /\ gvars = c.gvars
           /\ constructed = [bitrateValue |-> c.bitrateValue, constraint |-> c.constraint,
                             lvars |-> c.lvars, gvars |-> c.gvars]
           /\ now = 1000
           /\ last = NoCall
           /\ lastSet = NoSet
           /\ phase = [origin |-> "new", computes |-> 0]
           /\ lossHist = NoLoss
           /\ nsets = 0
           /\ host = NewHost(Undefined)
           /\ NoSelector
           /\ NoWindow /\ NoLadder /\ NoStreamer /\ NoPlayer /\ NoSocket

\* Streamer._computeVideoBitrate on a report that arrives dt after the previous
\* one: compute(its bitrate, bitrateConstraint, mediaReport), the bitrate
\* returned becomes the bitrate of the host
LiveCompute(bitrateConstraint, loss, dt) ==
    /\ Congestion(ReportKind(host.bitrate, bitrateConstraint, loss))
          => host.congestions < MaxCongestions
    /\ LET r == ComputeResult(kind, Elapse(lvars, dt), gvars, host.bitrate,
                              bitrateConstraint, loss, now, constraint, Bounds,
                              recoverySteps)
       IN /\ lvars' = r.lvars
          /\ gvars' = r.gvars
          /\ bitrateValue' = host.bitrate
          /\ constraint' = bitrateConstraint
          /\ last' = [NoCall EXCEPT !.op = "compute", !.bitrate = host.bitrate,
                                    !.bitrateConstraint = bitrateConstraint,
                                    !.loss = loss, !.ret = r.ret, !.at = now,
                                    !.pre = Bounds, !.resolution = r.resolution]
          /\ host' = [host EXCEPT !.bitrate = r.ret,
                                  !.before = host.latest,
                                  !.latest = ReportKind(host.bitrate, bitrateConstraint, loss),
                                  !.congestions =
                                      IF Congestion(ReportKind(host.bitrate,
                                                               bitrateConstraint, loss))
                                      THEN @ + 1 ELSE @]
    /\ UNCHANGED <<kind, startup, minimum, maximum, recoverySteps, appreciationDuration,
                   now, lastSet, phase, constructed, lossHist, nsets>>
    /\ UNCHANGED <<mbrVars, numVars, metaVars, strVars, playerVars, wsVars>>

\* A report arrives
LiveReport ==
    \E bc \in LiveConstraintInputs, loss \in LiveLossInputs, dt \in LinearClockSteps :
        LiveCompute(bc, loss, dt)

NextLive == LiveReport

\* The reports keep arriving
SpecLive == InitLive /\ [][NextLive]_vars /\ WF_vars(LiveReport)

\* ---- ABRGrade later in a session ----

\* Util.time() when the first report arrives, well into the session
SessionClock == 100000

\* ABRGrade is driven for this long
MaxSession == 30000

\* computes made at most
MaxGradeComputes == 4

GradeConstraintInputs == {Undefined, 800000, 900000, 2000000}
GradeLossInputs == {0, 50}
GradeClockSteps == {4000, 10000}

InitGrade ==
    LET c == Constructed("grade", [startup |-> Undefined, minimum |-> Undefined,
                                   maximum |-> Undefined, recoverySteps |-> Undefined])
    IN /\ kind = "grade"
       /\ startup = c.startup
       /\ minimum = c.minimum
       /\ maximum = c.maximum
       /\ recoverySteps = c.recoverySteps
       /\ appreciationDuration = c.appreciationDuration
       /\ bitrateValue = c.bitrateValue
       /\ constraint = c.constraint
       /\ lvars = c.lvars
       /\ gvars = c.gvars
       /\ constructed = [bitrateValue |-> c.bitrateValue, constraint |-> c.constraint,
                         lvars |-> c.lvars, gvars |-> c.gvars]
       /\ now = SessionClock
       /\ last = NoCall
       /\ lastSet = NoSet
       /\ phase = [origin |-> "new", computes |-> 0]
       /\ lossHist = NoLoss
       /\ nsets = 0
       /\ host = NewHost(c.startup)
       /\ NoSelector
       /\ NoWindow /\ NoLadder /\ NoStreamer /\ NoPlayer /\ NoSocket

\* The constraint given is below the one of the previous compute
ConstraintDecreases(bitrateConstraint, thisConstraint) ==
    bitrateConstraint # Undefined /\ thisConstraint # Undefined
    /\ bitrateConstraint < thisConstraint

\* What lines 77-103 did, for vars s whose windows are updated and d their result:
\* the bitrate was halved, the back-off was lengthened, or neither
DecreaseEvent(s, d, bitrate) ==
    IF d.bitrate # bitrate THEN "halved"
    ELSE IF Truthy(s.bitrateRecoveryTime) /\ ~Truthy(d.vars.bitrateRecoveryTime)
    THEN "lengthened"
    ELSE "decrease"

\* What a compute of ABRGrade did about its constraint
GradeEvent(v, bitrate, bitrateConstraint, loss, t, thisConstraint, max) ==
    IF bitrate = Undefined \/ ~ConstraintDecreases(bitrateConstraint, thisConstraint)
    THEN "steady"
    ELSE DecreaseEvent(
             GradeSample(v, bitrate, bitrateConstraint, loss, t, thisConstraint, max),
             GradeConstraintDecrease(
                 GradeSample(v, bitrate, bitrateConstraint, loss, t, thisConstraint, max),
                 bitrate, bitrateConstraint, t, thisConstraint),
             bitrate)

\* Lines 117-121 ran: the recovery step gave a bitrate and stopped the timer
RecoveryDone(v, after) ==
    v.bitrateRecoveryNextTime # 0 /\ after.bitrateRecoveryNextTime = 0

\* The history of the host after a compute of ABRGrade at clock value t
GradeHostAfter(h, v, after, event, ret, t) ==
    [h EXCEPT !.bitrate = ret,
              !.computes = @ + 1,
              !.before = h.latest,
              !.latest = event,
              !.recoveredAt = IF RecoveryDone(v, after) THEN t
                              ELSE IF event = "lengthened" THEN Undefined
                              ELSE @]

\* The host calls compute(its bitrate, bitrateConstraint, mediaReport) at clock
\* value now + dt and adopts the bitrate returned
GradeCompute(bitrateConstraint, loss, dt) ==
    /\ now + dt <= SessionClock + MaxSession
    /\ host.computes < MaxGradeComputes
    /\ LET r == ComputeResult(kind, lvars, gvars, host.bitrate, bitrateConstraint, loss,
                              now + dt, constraint, Bounds, recoverySteps)
       IN /\ lvars' = r.lvars
          /\ gvars' = r.gvars
          /\ bitrateValue' = host.bitrate
          /\ constraint' = bitrateConstraint
          /\ last' = [NoCall EXCEPT !.op = "compute", !.bitrate = host.bitrate,
                                    !.bitrateConstraint = bitrateConstraint,
                                    !.loss = loss, !.ret = r.ret, !.at = now + dt,
                                    !.pre = Bounds, !.resolution = r.resolution]
          /\ host' = GradeHostAfter(host, gvars, r.gvars,
                                    GradeEvent(gvars, host.bitrate, bitrateConstraint, loss,
                                               now + dt, constraint, maximum),
                                    r.ret, now + dt)
    /\ now' = now + dt
    /\ phase' = [phase EXCEPT !.computes = Min2(@ + 1, 2)]
    /\ UNCHANGED <<kind, startup, minimum, maximum, recoverySteps, appreciationDuration,
                   lastSet, constructed, lossHist, nsets>>
    /\ UNCHANGED <<mbrVars, numVars, metaVars, strVars, playerVars, wsVars>>

\* A report arrives: the host computes
GradeReport ==
    \E bc \in GradeConstraintInputs, loss \in GradeLossInputs, dt \in GradeClockSteps :
        GradeCompute(bc, loss, dt)

\* reset() of the controller; the host keeps its bitrate
GradeReset ==
    /\ last.op = "compute"
    /\ LET r == ResetResult(kind, lvars, gvars, recoverySteps)
       IN /\ bitrateValue' = r.bitrateValue
          /\ constraint' = r.constraint
          /\ lvars' = r.lvars
          /\ gvars' = r.gvars
    /\ last' = [NoCall EXCEPT !.op = "reset", !.at = now, !.pre = Bounds,
                              !.dirty = (StrategyState # constructed)]
    /\ phase' = [origin |-> "reset", computes |-> 0]
    /\ host' = [host EXCEPT !.recoveredAt = Undefined, !.before = host.latest,
                            !.latest = "reset"]
    /\ UNCHANGED <<kind, startup, minimum, maximum, recoverySteps, appreciationDuration,
                   now, lastSet, constructed, lossHist, nsets>>
    /\ UNCHANGED <<mbrVars, numVars, metaVars, strVars, playerVars, wsVars>>

NextGrade == GradeReport \/ GradeReset

SpecGrade == InitGrade /\ [][NextGrade]_vars

-----------------------------------------------------------------------------
(* MBRLinear waiting for a key frame *)

\* What the player has seen of keyFramesDecoded in the congestion-free streak in
\* progress: running, a streak is in progress; atStart, the counter of the report
\* that started it (Undefined when that report held none); advanced, a report of
\* the streak held a counter above atStart
NoGop == [running |-> FALSE, atStart |-> Undefined, advanced |-> FALSE]

\* MBRAbstract.compute, lines 121-125 and 145-148: the compute at clock value t,
\* with outcome r, sets _appreciationTime
StreakStarts(m, tr, r, t) ==
    r.judged /\ ~r.down /\ ~Truthy(Adopt(m, Reference(tr), t).appreciationTime)

\* The streak goes on through the compute with outcome r
StreakGoesOn(m, tr, r, t) ==
    r.judged /\ ~r.down /\ Truthy(Adopt(m, Reference(tr), t).appreciationTime)

\* The counter seen after a compute given stats at clock value t, with outcome r
GopAfter(g, m, tr, r, stats, t) ==
    IF StreakStarts(m, tr, r, t)
    THEN [running |-> TRUE, atStart |-> stats.keyFramesDecoded, advanced |-> FALSE]
    ELSE IF StreakGoesOn(m, tr, r, t)
    THEN [g EXCEPT !.advanced = \/ @
                                \/ /\ g.atStart # Undefined
                                   /\ stats.keyFramesDecoded # Undefined
                                   /\ stats.keyFramesDecoded > g.atStart]
    ELSE NoGop

\* The statistics of the video track: packetsLost always, keyFramesDecoded or not
GopStatsInputs ==
    [present : {TRUE}, packetsLost : {1, 2, 3}, nackCount : {Undefined},
     keyFramesDecoded : {Undefined, 1, 2}]

GopClockSteps == {4000, 6000}

\* The selection: the video track 2 alone, or with the audio track 4
GopSelections == {[audio |-> Undefined, video |-> 2], [audio |-> 4, video |-> 2]}

InitGop ==
    /\ NoController
    /\ NoWindow /\ NoLadder /\ NoStreamer /\ NoPlayer /\ NoSocket
    /\ now = 1000
    /\ mbr = NewMBR([learningUpStep |-> Undefined, maximumUpDelay |-> Undefined])
    /\ tracks \in GopSelections
    /\ mlast = NoMCall
    /\ streak = NoStreak
    /\ sinceDown = FALSE
    /\ nsame = 0
    /\ twin = NoTwin
    /\ host = NoGop

\* compute(metadata, tracks, stats) at clock value now + dt
GopComputeAt(stats, dt) ==
    /\ now + dt <= MaxClock
    /\ LET r == MBRCompute(mbr, tracks, stats, now + dt)
       IN /\ mbr' = r.mbr
          /\ tracks' = r.tracks
          /\ mlast' = [op |-> "compute", n |-> 1 - mlast.n, tracks |-> tracks,
                       stats |-> stats, at |-> now + dt, ret |-> r.ret,
                       judged |-> r.judged, down |-> r.down, up |-> r.up,
                       upDelay |-> mbr.upDelay, error |-> r.error,
                       afterError |-> mlast.error, twinned |-> FALSE, same |-> TRUE]
          /\ streak' = StreakAfter(streak, Reference(tracks), r, now + dt)
          /\ sinceDown' = IF r.ret THEN r.down ELSE sinceDown
          /\ host' = GopAfter(host, mbr, tracks, r, stats, now + dt)
    /\ now' = now + dt
    /\ UNCHANGED <<abrOnly, numVars, metaVars, strVars, playerVars, wsVars, nsame, twin>>

\* The player calls compute with the latest statistics
GopCompute == \E stats \in GopStatsInputs, dt \in GopClockSteps : GopComputeAt(stats, dt)

\* reset()
GopReset ==
    /\ mlast.op = "compute"
    /\ mbr' = MBRResetResult(mbr)
    /\ mlast' = [NoMCall EXCEPT !.op = "reset", !.n = mlast.n, !.upDelay = mbr.upDelay]
    /\ streak' = NoStreak
    /\ sinceDown' = FALSE
    /\ host' = NoGop
    /\ UNCHANGED <<abrVars, numVars, metaVars, strVars, playerVars, wsVars, tracks, nsame,
                   twin>>

NextGop == GopCompute \/ GopReset

SpecGop == InitGop /\ [][NextGop]_vars

-----------------------------------------------------------------------------
(* Streamer sessions that share one bitrate controller *)

\* sessions started at most, and computes made in a session at most
MaxSessions == 2
MaxSessionComputes == 2

\* Util.time() at most
MaxSessionClock == 40000

SessionClockSteps == {4000, 12000}
SessionLossInputs == {0, 50}

\* on_video_bitrate: the bitrate and the constraint the server announces
AnnouncedBitrates == {1000000}
AnnouncedConstraints == {800000, 3000000}

\* The causes of a session end: stop(), on_stop from the server, a failure
SessionEnds == {"stop", "on_stop", "failure"}

\* What is known of the session in progress: sessions started so far, computes
\* made in this one, whether the server has announced a bitrate in this one,
\* loss_perc of Streamer._mediaReport, and whether the latest session end found
\* the strategy state other than the constructed one
NewSession ==
    [sessions |-> 0, computes |-> 0, announced |-> FALSE, loss |-> Undefined,
     dirty |-> FALSE]

InitSession ==
    \E k \in {"linear", "grade"} :
        LET c == Constructed(k, [startup |-> Undefined, minimum |-> Undefined,
                                 maximum |-> Undefined, recoverySteps |-> Undefined])
        IN /\ kind = k
           /\ startup = c.startup
           /\ minimum = c.minimum
           /\ maximum = c.maximum
           /\ recoverySteps = c.recoverySteps
           /\ appreciationDuration = c.appreciationDuration
           /\ bitrateValue = c.bitrateValue
           /\ constraint = c.constraint
           /\ lvars = c.lvars
           /\ gvars = c.gvars
           /\ constructed = [bitrateValue |-> c.bitrateValue, constraint |-> c.constraint,
                             lvars |-> c.lvars, gvars |-> c.gvars]
           /\ now = 1000
           /\ last = NoCall
           /\ lastSet = NoSet
           /\ phase = [origin |-> "new", computes |-> 0]
           /\ lossHist = NoLoss
           /\ nsets = 0
           /\ host = NewSession
           /\ NoSelector
           /\ NoWindow /\ NoLadder /\ NoStreamer /\ NoPlayer /\ NoSocket

\* abr.reset() in the onClose handler of the connector, which connector.close()
\* calls before it returns (Streamer.ts, lines 255-260)
SessionReset ==
    /\ LET r == ResetResult(kind, lvars, gvars, recoverySteps)
       IN /\ bitrateValue' = r.bitrateValue
          /\ constraint' = r.constraint
          /\ lvars' = r.lvars
          /\ gvars' = r.gvars
    /\ last' = [NoCall EXCEPT !.op = "reset", !.at = now, !.pre = Bounds,
                              !.dirty = (StrategyState # constructed)]
    /\ phase' = [origin |-> "reset", computes |-> 0]
    /\ lossHist' = NoLoss

\* start(stream, params, abr) with a connector that is a controller: stop(), which
\* ends the session in progress if any, then the new connector
SessionStart ==
    /\ host.sessions < MaxSessions
    /\ IF streamer.running
       THEN SessionReset
       ELSE UNCHANGED <<bitrateValue, constraint, lvars, gvars, last, phase, lossHist>>
    /\ streamer' = Started(streamer, TRUE)
    /\ slast' = [NoSCall EXCEPT !.op = "start"]
    /\ host' = [NewSession EXCEPT
                   !.sessions = host.sessions + 1,
                   !.dirty = IF streamer.running THEN StrategyState # constructed
                             ELSE host.dirty]
    /\ UNCHANGED <<kind, startup, minimum, maximum, recoverySteps, appreciationDuration,
                   now, lastSet, constructed, nsets, pinned>>
    /\ UNCHANGED <<mbrVars, numVars, metaVars, playerVars, wsVars>>

\* The session ends: stop() by the user, or close() of the connector on on_stop
\* or on a failure; either way onClose resets the controller and stop() clears
\* the streamer
SessionEnd ==
    /\ streamer.running
    /\ SessionReset
    /\ streamer' = Stopped(streamer)
    /\ \E cause \in SessionEnds : slast' = [NoSCall EXCEPT !.op = cause]
    /\ host' = [host EXCEPT !.computes = 0, !.announced = FALSE, !.loss = Undefined,
                            !.dirty = StrategyState # constructed]
    /\ UNCHANGED <<kind, startup, minimum, maximum, recoverySteps, appreciationDuration,
                   now, lastSet, constructed, nsets, pinned>>
    /\ UNCHANGED <<mbrVars, numVars, metaVars, playerVars, wsVars>>

\* Streamer._computeVideoBitrate at clock value now + dt, the media report held
\* having loss_perc loss; the user assigns no bitrate
SessionCompute(s, loss, dt, event) ==
    /\ streamer.controller
    /\ now + dt <= MaxSessionClock
    /\ host.computes < MaxSessionComputes
    /\ LET r == ComputeResult(kind, lvars, gvars, s.videoBitrate,
                              s.videoBitrateConstraint, loss, now + dt, constraint,
                              Bounds, recoverySteps)
           c == ComputeVideoBitrate(s, r.ret)
       IN /\ lvars' = r.lvars
          /\ gvars' = r.gvars
          /\ bitrateValue' = s.videoBitrate
          /\ constraint' = s.videoBitrateConstraint
          /\ last' = [NoCall EXCEPT !.op = "compute", !.bitrate = s.videoBitrate,
                                    !.bitrateConstraint = s.videoBitrateConstraint,
                                    !.loss = loss, !.ret = r.ret, !.at = now + dt,
                                    !.pre = Bounds, !.resolution = r.resolution]
          /\ streamer' = c.s
          /\ slast' = [op |-> event, sent |-> c.sent, threw |-> FALSE]
    /\ now' = now + dt
    /\ phase' = [phase EXCEPT !.computes = Min2(@ + 1, 2)]
    /\ lossHist' = LossAfterCompute(lossHist, s.videoBitrate, s.videoBitrateConstraint, loss)
    /\ UNCHANGED <<kind, startup, minimum, maximum, recoverySteps, appreciationDuration,
                   lastSet, constructed, nsets, pinned>>
    /\ UNCHANGED <<mbrVars, numVars, metaVars, playerVars, wsVars>>

\* The onOpen handler of the controller
SessionOpen ==
    \E dt \in SessionClockSteps :
        /\ SessionCompute(streamer, host.loss, dt, "open")
        /\ host' = [host EXCEPT !.computes = @ + 1]

\* The onMediaReport handler of the controller
SessionReport ==
    \E loss \in SessionLossInputs, dt \in SessionClockSteps :
        /\ SessionCompute([streamer EXCEPT !.mediaReport = TRUE], loss, dt, "report")
        /\ host' = [host EXCEPT !.computes = @ + 1, !.loss = loss]

\* The onVideoBitrate handler of the controller
SessionVideoBitrate ==
    /\ streamer.controller
    /\ \E vb \in AnnouncedBitrates, c \in AnnouncedConstraints :
          /\ <<vb, c>> # <<streamer.videoBitrate, streamer.videoBitrateConstraint>>
          /\ streamer' = [streamer EXCEPT !.videoBitrate = vb,
                                          !.videoBitrateConstraint = c]
    /\ slast' = [NoSCall EXCEPT !.op = "bitrate"]
    /\ host' = [host EXCEPT !.announced = TRUE]
    /\ UNCHANGED <<abrVars, pinned>>
    /\ UNCHANGED <<mbrVars, numVars, metaVars, playerVars, wsVars>>

NextSession ==
    SessionStart \/ SessionEnd \/ SessionOpen \/ SessionReport \/ SessionVideoBitrate

SpecSession == InitSession /\ [][NextSession]_vars

-----------------------------------------------------------------------------
(* Properties of the bitrate controllers *)

\* Math.max(minimum, Math.min(x, maximum)) with the bounds b
Clamp(x, b) == Max2(b.minimum, Min2(x, b.maximum))

\* A step of compute: the only operation that reads the clock
ComputeStep == now' # now

\* C1: every value returned by compute lies between the minimum and the maximum
\* read at the time of the call, the call with an undefined bitrate included.
C1_ReturnWithinBounds ==
    last.op = "compute" =>
        /\ last.pre.minimum <= last.ret
        /\ last.ret <= last.pre.maximum

\* C2: compute called with an undefined current bitrate returns exactly startup
\* and changes no variable of the strategy.
C2_UndefinedBypass ==
    [][(ComputeStep /\ last'.bitrate = Undefined) =>
          /\ last'.ret = startup
          /\ lvars' = lvars
          /\ gvars' = gvars]_vars

\* C2 witness: the bypass is taken by a controller whose strategy has learned
\* something since construction.
C2_Witness ==
    /\ last.op = "compute"
    /\ last.bitrate = Undefined
    /\ last.ret = startup
    /\ phase.computes = 2
    /\ \/ lvars # constructed.lvars
       \/ gvars # constructed.gvars

\* C3: minimum <= startup <= maximum in every reachable state, right after
\* construction included.
C3_BoundsOrdered == minimum <= startup /\ startup <= maximum

\* C4: assigning maximum a value below minimum (resp. minimum a value above
\* maximum) sets the three bounds to that value; any other assignment changes only
\* the assigned bound and clamps startup into the new range.  The value is the
\* one stored, Math.round of the value assigned.
C4_SetterEffect ==
    LET v == RoundHalves(lastSet.assigned)
        p == lastSet.pre
    IN /\ lastSet.op = "maximum" =>
            IF v < p.minimum
            THEN minimum = v /\ startup = v /\ maximum = v
            ELSE /\ maximum = v
                 /\ minimum = p.minimum
                 /\ startup = Max2(p.minimum, Min2(p.startup, v))
       /\ lastSet.op = "minimum" =>
            IF v > p.maximum
            THEN minimum = v /\ startup = v /\ maximum = v
            ELSE /\ minimum = v
                 /\ maximum = p.maximum
                 /\ startup = Max2(v, Min2(p.startup, p.maximum))

\* The report of a compute step is lossy and is given with a defined bitrate
\* that no constraint binds
LossyUnconstrained(c) ==
    /\ c.op = "compute"
    /\ c.bitrate # Undefined
    /\ ~Binds(c.bitrate, c.bitrateConstraint)
    /\ Truthy(c.loss)

\* C5 as claimed: with no binding constraint, a non-zero loss that is greater than
\* or equal to the loss of the preceding lossy report makes ABRLinear return
\* round(bitrate * (1 - loss/100)), clamped.
C5_LossAgainstPrecedingLossyReport ==
    [][(kind = "linear" /\ ComputeStep /\ LossyUnconstrained(last')
        /\ lossHist.seen # Undefined /\ last'.loss >= lossHist.seen) =>
          last'.ret = Clamp(LossyBitrate(last'.bitrate, last'.loss), last'.pre)]_vars

\* C5 amended: the same, for a loss greater than or equal to the loss of the most
\* recent lossy report that was given while the constraint did not bind, provided
\* neither a reset nor a loss-free report with a non-binding constraint came since.
C5_LossAgainstRememberedLoss ==
    [][(kind = "linear" /\ ComputeStep /\ LossyUnconstrained(last')
        /\ lossHist.remembered # Undefined /\ last'.loss >= lossHist.remembered) =>
          last'.ret = Clamp(LossyBitrate(last'.bitrate, last'.loss), last'.pre)]_vars

\* C5 witness: loss 10% following a remembered loss of 5% lowered the bitrate to
\* round(bitrate * 0.90).
C5_Witness ==
    /\ kind = "linear"
    /\ LossyUnconstrained(last)
    /\ last.loss = 100
    /\ lossHist.rememberedBefore = 50
    /\ last.ret = LossyBitrate(last.bitrate, 100)
    /\ 10 * last.ret = 9 * last.bitrate

\* A loss-free report given with a defined bitrate that no constraint binds and
\* that lies within the bounds
Quiet(c) ==
    /\ c.op = "compute"
    /\ c.bitrate # Undefined
    /\ ~Binds(c.bitrate, c.bitrateConstraint)
    /\ ~Truthy(c.loss)
    /\ c.pre.minimum <= c.bitrate
    /\ c.bitrate < c.pre.maximum

\* C6: from a fresh reset(), two consecutive loss-free unconstrained computes at
\* least appreciationDuration apart give exactly one upward adjustment: the first
\* returns the bitrate unchanged, the second a strictly higher one.
C6_OneUpwardAdjustment ==
    [][(kind = "linear" /\ phase = [origin |-> "reset", computes |-> 1]
        /\ Quiet(last) /\ ComputeStep /\ Quiet(last')
        /\ last'.at - last.at >= appreciationDuration) =>
          /\ last.ret = last.bitrate
          /\ last'.ret > last'.bitrate]_vars

\* C7: after reset() the controller holds the state of a newly constructed one
\* with the same parameters (strategy variables, current bitrate, constraint
\* exposed), so that every later compute answers alike.
C7_ResetIsFresh == last.op = "reset" => StrategyState = constructed

\* C7 witness: reset() of a controller whose state differed from the constructed one.
C7_Witness == last.op = "reset" /\ last.dirty /\ StrategyState = constructed

-----------------------------------------------------------------------------
(* Properties of the track selector *)

\* The step is a call of compute on the track selector
MBRComputeStep == mlast'.n # mlast.n

\* The report of call c reached the congestion test and was not found congested
LossFree(c) == c.op = "compute" /\ c.judged /\ ~c.down

\* Call c changed the selection upwards
UpSwitch(c) == c.op = "compute" /\ c.ret /\ ~c.down

\* Exactly one selected track of tr was replaced by its neighbour in new
MovedTo(tr, new, down) ==
    \/ /\ tr.audio # Undefined
       /\ new.audio = (IF down THEN Down(tr.audio) ELSE Up(tr.audio))
       /\ new.audio # Undefined
       /\ new.video = tr.video
    \/ /\ tr.video # Undefined
       /\ new.video = (IF down THEN Down(tr.video) ELSE Up(tr.video))
       /\ new.video # Undefined
       /\ new.audio = tr.audio

\* Two reports with packetsLost and nackCount both strictly increasing
Increasing(a, b) ==
    /\ a.present /\ b.present
    /\ a.packetsLost # Undefined /\ b.packetsLost > a.packetsLost
    /\ a.nackCount # Undefined /\ b.nackCount > a.nackCount

\* C8: MBRLinear, only a video track selected, which has a lower neighbour in the
\* ladder: when two consecutive computes are made on that selection, the clock
\* advancing between them, and their statistics show strictly increasing
\* packetsLost and strictly increasing nackCount, the second compute replaces the
\* video track by its down neighbour, returns true, and sets upDelay to
\* min(upDelay + learningUpStep, maximumUpDelay).
C8_CongestionSwitchesDown ==
    [][(/\ MBRComputeStep
        /\ mlast.op = "compute"
        /\ mlast.tracks = tracks
        /\ tracks.audio = Undefined
        /\ tracks.video \in VideoTracks
        /\ Down(tracks.video) # Undefined
        /\ Increasing(mlast.stats, mlast'.stats)
        /\ mlast'.at > mlast.at)
       => /\ mlast'.ret
          /\ tracks' = [audio |-> Undefined, video |-> Down(tracks.video)]
          /\ mbr'.upDelay = Min2(mbr.upDelay + mbr.learningUpStep, mbr.maximumUpDelay)
      ]_vars

\* C8's case: the second of two such computes has switched the video track down and
\* the back-off has reached its cap
C8_Witness ==
    /\ mlast.op = "compute" /\ mlast.ret /\ mlast.down
    /\ mlast.tracks = [audio |-> Undefined, video |-> 2]
    /\ tracks = [audio |-> Undefined, video |-> 1]
    /\ mlast.stats.packetsLost = 2 /\ mlast.stats.nackCount = 1
    /\ mlast.upDelay = 6000
    /\ mbr.upDelay = 8000

\* C9: the track selector never switches up unless the uninterrupted congestion-free
\* streak on the current reference track has lasted at least upDelay milliseconds;
\* in particular no report less than upDelay into the streak that follows a
\* down-switch switches up.
C9_UpSwitchOnlyAfterUpDelay ==
    UpSwitch(mlast) =>
        /\ streak.ref = Reference(mlast.tracks)
        /\ mlast.at - streak.start >= mlast.upDelay

\* C9's case: an up-switch made when the streak has lasted exactly a positive upDelay
C9_Witness ==
    /\ UpSwitch(mlast)
    /\ mlast.upDelay > 0
    /\ streak.ref = Reference(mlast.tracks)
    /\ mlast.at - streak.start = mlast.upDelay

\* The report of the step is loss-free and comes once upDelay milliseconds of the
\* streak have elapsed, a down-switch being the latest change of the selection
DueAfterDownSwitch ==
    /\ MBRComputeStep
    /\ sinceDown
    /\ LossFree(mlast')
    /\ streak'.ref = Reference(tracks)
    /\ mlast'.at - streak'.start >= mbr.upDelay

\* C10 as stated: after a successful down-switch, a loss-free report processed once
\* upDelay milliseconds of congestion-free streak have elapsed makes compute return
\* true and move the selection to the up neighbour.
C10_UpSwitchOnceUpDelayElapsed ==
    [][DueAfterDownSwitch => (mlast'.ret /\ MovedTo(tracks, tracks', FALSE))]_vars

\* C10, amended: after a successful down-switch, a loss-free report processed once
\* upDelay milliseconds of congestion-free streak have elapsed switches up exactly
\* when the recovery predicate of the strategy passes on that report; compute then
\* returns true and moves a selected track to its up neighbour.
C10_UpSwitchOnceUpDelayElapsedAndRecovered ==
    [][DueAfterDownSwitch =>
          /\ mlast'.ret = mlast'.up
          /\ (mlast'.up => MovedTo(tracks, tracks', FALSE))
          /\ (~mlast'.up => tracks' = tracks)]_vars

\* C10's case: after a down-switch, a report that comes exactly upDelay into the
\* streak and on which the recovery predicate passes has switched the video track up
C10_Witness ==
    /\ UpSwitch(mlast) /\ mlast.up
    /\ mlast.upDelay > 0
    /\ mlast.at - streak.start = mlast.upDelay
    /\ mlast.tracks = [audio |-> Undefined, video |-> 2]
    /\ tracks = [audio |-> Undefined, video |-> 3]
    /\ ~sinceDown

\* C11: whenever compute returns false the selection is unchanged; whenever it
\* returns true exactly one of audio and video has changed, to the index of the
\* immediate ladder neighbour of its previous value, down when congested and up
\* otherwise.
C11_SelectionFrame ==
    [][MBRComputeStep =>
          /\ (~mlast'.ret => tracks' = tracks)
          /\ (mlast'.ret => MovedTo(tracks, tracks', mlast'.down))]_vars

\* C11's case: with audio 4 (no down neighbour) and video 2 selected, a congested
\* compute has changed the video track alone, to its down neighbour
C11_Witness ==
    /\ mlast.op = "compute" /\ mlast.ret /\ mlast.down
    /\ mlast.tracks = [audio |-> 4, video |-> 2]
    /\ tracks = [audio |-> 4, video |-> 1]

\* The reference track of the selection is selected and held by the ladder
ReferenceInLadder(tr) ==
    Reference(tr) # Undefined /\ MetadataGet(Reference(tr)) # Undefined

\* C12: when the reference track is absent from the ladder, or the statistics of
\* the reference track are absent, compute signals an error, returns false and
\* changes neither the selection nor upDelay; nothing is left behind that stops a
\* later compute: the next compute with a reference track of the ladder and
\* statistics reaches the congestion test.
C12_MissingInputIsAnError ==
    [][MBRComputeStep =>
          /\ (/\ Reference(tracks) # Undefined
              /\ (~ReferenceInLadder(tracks) \/ ~mlast'.stats.present))
             => /\ mlast'.error
                /\ ~mlast'.ret
                /\ tracks' = tracks
                /\ mbr'.upDelay = mbr.upDelay
          /\ (mlast.error /\ ReferenceInLadder(tracks) /\ mlast'.stats.present)
             => (mlast'.judged /\ ~mlast'.error)]_vars

\* C12's case: the compute that follows one made without statistics has switched
\* the selection
C12_Witness ==
    /\ mlast.op = "compute" /\ mlast.afterError
    /\ mlast.judged /\ mlast.ret /\ ~mlast.error


\* C13: after reset() the selector behaves as a newly constructed one with the
\* same parameters: each later compute returns the same value, leaves the same
\* selection and the same upDelay as the compute of the new one given the same
\* ladder, selection, statistics and clock value.
C13_ResetIsAsNew ==
    [][MBRComputeStep /\ twin.active => mlast'.same]_vars


------------------------------------------------------------------------------
(* Properties of the sample window *)

\* The value the average getter returns, as a fraction
AverageOf(n) == ReadAverage(n).average

\* C14: for every sequence of push and pop (and clear) on a Numbers, whenever it
\* holds a value, minimum <= average <= maximum.
C14_AverageBetweenMinimumAndMaximum ==
    (~nresized /\ nums.queue # <<>>) =>
        /\ nums.min * AverageOf(nums).den <= AverageOf(nums).num
        /\ AverageOf(nums).num <= nums.max * AverageOf(nums).den

\* C14's case: a pop left two values, one negative, and the average lies
\* strictly between minimum and maximum
C14_Witness ==
    /\ ~nresized /\ nlast.op = "pop" /\ nlast.popped
    /\ Len(nums.queue) = 2
    /\ nums.min < 0
    /\ nums.min * AverageOf(nums).den < AverageOf(nums).num
    /\ AverageOf(nums).num < nums.max * AverageOf(nums).den


RECURSIVE SeqSum(_)
SeqSum(s) == IF s = <<>> THEN 0 ELSE Head(s) + SeqSum(Tail(s))

\* The smallest and the largest value of a non-empty sequence
Smallest(s) == SeqMin(Tail(s), Head(s))
Largest(s) == SeqMax(Tail(s), Head(s))

\* C15: after any sequence of push and pop on a Numbers that holds a value,
\* minimum is the smallest value held, maximum the largest value held and
\* average the mean of the values held.
C15_MinimumMaximumAverageOfHeld ==
    (~nresized /\ nums.queue # <<>>) =>
        /\ nums.min = Smallest(nums.queue)
        /\ nums.max = Largest(nums.queue)
        /\ AverageOf(nums).num * Len(nums.queue) = SeqSum(nums.queue) * AverageOf(nums).den


\* A step of push
PushStep == npush' = npush + 1

\* The push of this step finds the window full
Evicting == nums.capacity # Undefined /\ Len(nums.queue) = nums.capacity

C17_UnboundedWithoutCapacity ==
    [][/\ (PushStep /\ nums.capacity = Undefined)
             => nums'.queue = Append(nums.queue, nlast'.value)
       /\ (~nresized' /\ nums'.capacity = Undefined)
             => /\ Len(nums'.queue) = npush' - npop'
                /\ AverageOf(nums').num * Len(nums'.queue)
                      = SeqSum(nums'.queue) * AverageOf(nums').den]_vars


\* A step of reset
MBRResetStep == mlast'.op = "reset" /\ mlast.op # "reset"

\* upDelay after a down-switch made with the fields m
Grown(m) == Min2(m.upDelay + m.learningUpStep, m.maximumUpDelay)

\* The compute of this step has switched down
DownSwitchStep == MBRComputeStep /\ mlast'.ret /\ mlast'.down

\* C18: 0 <= upDelay <= maximumUpDelay in every reachable state; upDelay is
\* modified only by a successful down-switch, which grows it by learningUpStep up
\* to maximumUpDelay, and by reset(), which sets it to 0; up-switches, computes
\* that return false and congestion at the bottom of the ladder leave it unchanged.
C18_UpDelayBoundedAndOwned ==
    /\ [](0 <= mbr.upDelay /\ mbr.upDelay <= mbr.maximumUpDelay)
    /\ [][/\ DownSwitchStep => mbr'.upDelay = Grown(mbr)
          /\ MBRResetStep => mbr'.upDelay = 0
          /\ ~(DownSwitchStep \/ MBRResetStep) => mbr'.upDelay = mbr.upDelay]_vars

\* C18's case: a second down-switch has grown upDelay up to the cap
C18_Witness ==
    /\ mlast.op = "compute" /\ mlast.ret /\ mlast.down
    /\ mlast.upDelay > 0
    /\ mlast.upDelay + mbr.learningUpStep > mbr.maximumUpDelay
    /\ mbr.upDelay = mbr.maximumUpDelay


------------------------------------------------------------------------------
(* Properties of the track ladder *)

\* Track t of m refers, up and down, to tracks m holds, which refer back to it
\* and are ordered by maxbps
Chained(m, t) ==
    LET o == m.objs[t]
    IN /\ o.up = Undefined \/ o.up \in m.tracks
       /\ o.down = Undefined \/ o.down \in m.tracks
       /\ o.up \in m.tracks =>
             m.objs[o.up].down = t /\ m.objs[o.up].maxbps >= o.maxbps
       /\ o.down \in m.tracks =>
             m.objs[o.down].up = t /\ o.maxbps >= m.objs[o.down].maxbps

\* C19: in a ladder built from the stream metadata and then filtered by
\* subset(codecs), every remaining track has up and down undefined or equal to
\* remaining tracks, and the chain is consistent: t.up.down = t, t.down.up = t and
\* t.up.maxbps >= t.maxbps >= t.down.maxbps.
C19_SubsetKeepsChain ==
    mdlast = "subset" => \A t \in meta.tracks : Chained(meta, t)

\* C19's case: the middle video rendition was removed and the two remaining
\* ones are linked over the gap
C19_Witness ==
    /\ mdlast = "subset"
    /\ \E t \in meta.tracks, r \in VideoTracks \ meta.tracks :
          /\ meta.objs[r].up = t
          /\ meta.objs[r].down \in meta.tracks
          /\ meta.objs[t].down = meta.objs[r].down
          /\ meta.objs[meta.objs[t].down].up = t


------------------------------------------------------------------------------
(* Properties of the streamer *)

\* C20: once the user has assigned a video bitrate during a controllable
\* session, the adaptive bitrate engine no longer changes the video bitrate nor
\* calls setVideoBitrate on the controller, at any later media report or open
\* event, until the user assigns undefined or the session is restarted.
C20_AssignedBitrateIsKept ==
    [][(slast'.op \in {"open", "report"} /\ pinned # Undefined) =>
          /\ streamer'.videoBitrate = streamer.videoBitrate
          /\ slast'.sent = Undefined]_vars


------------------------------------------------------------------------------
(* Properties of the player *)

\* C21: Player.controller is undefined whenever the player is not running
\* (before the first start and after every stop) and whenever the connector of
\* the current session is not a controller.
C21_ControllerOnlyWhileControllable ==
    (~player.running \/ ~player.controllable) => ~player.controller

\* A step of the onPlaying handler in which mbr.compute has returned true
SwitchStep == plast'.op = "infos" /\ plast'.computed /\ plast'.ret /\ player.pending

\* C22: while a track kind is fixed by the user, multi-bitrate switching never
\* changes the player's value for that kind: after an MBR compute that returns
\* true the getter of the fixed kind returns the index the user fixed; when both
\* kinds are fixed MBR compute is not invoked.
C22_FixedTrackIsKept ==
    [][/\ (SwitchStep /\ pfixed.audio # Undefined) => player'.audioTrack = player.audioTrack
       /\ (SwitchStep /\ pfixed.video # Undefined) => player'.videoTrack = player.videoTrack
       /\ (plast'.op = "infos" /\ player.pending
             /\ pfixed.audio # Undefined /\ pfixed.video # Undefined) => ~plast'.computed]_vars


------------------------------------------------------------------------------
(* Properties of the reliable socket *)

\* A send made after open() and before the connection is established
SendWhileConnecting == wlast'.op = "send" /\ wlast' # wlast /\ ~ws.closed /\ ~ws.opened

\* The step in which the connection is established
ConnectionOpens == ~ws.opened /\ ws'.opened

\* C23: messages passed to send() after open() and before the connection is
\* established are queued; when the connection opens they are delivered to the
\* socket in the order they were sent, before onOpen is fired; after the flush
\* the queue is empty and bufferedAmount no longer counts them.
C23_QueuedMessagesFlushedOnOpen ==
    [][/\ SendWhileConnecting =>
             /\ ws'.queueing = Append(ws.queueing, wlast'.message)
             /\ ws'.queueingBytes = ws.queueingBytes + MessageLength(wlast'.message)
             /\ ws'.wire = ws.wire
       /\ ConnectionOpens =>
             /\ ws'.wire = (ws.wire \o ws.queueing) \o <<"onOpen">>
             /\ ws'.queueing = <<>>
             /\ ws'.queueingBytes = 0]_vars

\* C23's case: "a" then "bc" were sent while connecting and the socket was given
\* them in that order before onOpen
C23_Witness ==
    /\ wlast.op = "onopen"
    /\ ws.wire = <<"a", "bc", "onOpen">>
    /\ ws.queueing = <<>> /\ ws.queueingBytes = 0


------------------------------------------------------------------------------
(* Properties of ABRLinear driven by a host *)

\* A compute step of ABRLinear that is given a defined bitrate
LinearStep == kind = "linear" /\ ComputeStep /\ last'.bitrate # Undefined

\* A compute given a defined bitrate above the constraint it is given
Clamping(c) == c.op = "compute" /\ c.bitrate # Undefined /\ Binds(c.bitrate, c.bitrateConstraint)

\* A loss-free compute given a defined bitrate that no constraint binds
LossFreeUnconstrained(c) ==
    /\ c.op = "compute"
    /\ c.bitrate # Undefined
    /\ ~Binds(c.bitrate, c.bitrateConstraint)
    /\ ~Truthy(c.loss)

\* C24: whenever a constraint is present and the current bitrate exceeds it,
\* ABRLinear returns the constraint (clamped to [minimum, maximum]) whatever the
\* loss report says and marks the link not stable, so that the next loss-free
\* compute only re-anchors: it stores its bitrate as the stable one, opens a new
\* stability window and returns its input bitrate (clamped as every return value).
C24_ConstraintClampsAndUnanchors ==
    [][/\ (LinearStep /\ Clamping(last')) =>
             /\ last'.ret = Clamp(last'.bitrateConstraint, last'.pre)
             /\ lvars'.stableTime = 0
       /\ (LinearStep /\ Clamping(last) /\ LossFreeUnconstrained(last')) =>
             /\ last'.ret = Clamp(last'.bitrate, last'.pre)
             /\ ~last'.resolution
             /\ lvars'.stableBitrate = last'.bitrate
             /\ lvars'.stableTime = last'.at + STABLE_TIMEOUT_MS]_vars

\* C24's case: a lossy report given with a binding constraint returned the
\* constraint, and the loss-free compute that followed returned its input
C24_Witness ==
    /\ kind = "linear"
    /\ LossFreeUnconstrained(last)
    /\ last.ret = last.bitrate
    /\ lvars.stableBitrate = last.bitrate
    /\ host.before = "clamp-lossy"
    /\ host.latest = "free"


\* The compute step is an upward probe: the strategy tried to increase
ProbeStep == LinearStep /\ last'.resolution

\* C25: no upward probe leaves the recovery-step counter below the configured
\* recoverySteps, the counter every upward probe divides by is at least
\* recoverySteps, and recoverySteps is at least 1, for every sequence of reports,
\* constraint clamps and resets.
C25_RecoveryFactorFloor ==
    [][/\ recoverySteps >= 1
       /\ ProbeStep =>
             /\ lvars.recoveryFactor >= recoverySteps
             /\ lvars'.recoveryFactor >= recoverySteps]_vars

\* C25's case: a probe made after a congestion, a reset and a new anchor, by a
\* controller configured with recoverySteps 0, stored as 1
C25_Witness ==
    /\ kind = "linear"
    /\ last.op = "compute" /\ last.resolution
    /\ recoverySteps = 1
    /\ lvars.recoveryFactor = 1
    /\ phase.origin = "reset"


\* An upward probe that follows another probe of the same streak
LaterProbeStep == ProbeStep /\ host.inc # Undefined

LossyStep == LinearStep /\ Truthy(last'.loss)

\* C28 as claimed: a compute whose report carries non-zero loss never raises the
\* bitrate above its input, and lowers it only when that loss is greater than or
\* equal to the loss remembered from an earlier lossy report with no loss-free
\* report and no reset in between; the first lossy report after a reset or after
\* a loss-free report leaves the bitrate unchanged.
C28_LossyLowersOnlyOnRepeatedLoss ==
    [][LossyStep =>
          /\ last'.ret <= last'.bitrate
          /\ last'.ret < last'.bitrate =>
                (host.prior # Undefined /\ last'.loss >= host.prior)
          /\ host.prior = Undefined => last'.ret = last'.bitrate]_vars

\* What ABRLinear answers to a lossy report given while the constraint does not
\* bind, before the clamp: the lowered bitrate if the loss is not below the
\* remembered one, the input otherwise
LossyAnswer(c, remembered) ==
    IF remembered # Undefined /\ c.loss >= remembered
    THEN LossyBitrate(c.bitrate, c.loss)
    ELSE c.bitrate

\* C28 amended: a compute whose report carries non-zero loss returns the
\* constraint when the constraint binds; otherwise it never raises the bitrate
\* and lowers it only when the loss is greater than or equal to the loss of the
\* most recent lossy report given while the constraint did not bind, with no
\* reset and no loss-free report with a non-binding constraint in between; the
\* first such lossy report after a reset or such a loss-free report leaves the
\* bitrate unchanged.  Every value is clamped into [minimum, maximum].
C28_LossyLowersOnlyOnRememberedLoss ==
    [][LossyStep =>
          last'.ret = Clamp(IF Binds(last'.bitrate, last'.bitrateConstraint)
                            THEN last'.bitrateConstraint
                            ELSE LossyAnswer(last', lossHist.remembered), last'.pre)]_vars

\* C28's case: a lossy report that directly follows a loss-free one left the
\* bitrate unchanged, although a lossy report had lowered the bitrate before
C28_Witness ==
    /\ kind = "linear"
    /\ host.latest = "lossy" /\ host.before = "free"
    /\ lossHist.rememberedBefore = Undefined
    /\ last.ret = last.bitrate
    /\ last.bitrate < startup
    /\ last.pre.minimum <= last.bitrate


\* The compute step returns more than it is given
RaisingStep == LinearStep /\ last'.ret > last'.bitrate

\* The compute step comes at least one full stability window after the compute
\* that anchored the streak, which no lossy report, constraint clamp or reset
\* has broken since
WindowElapsed ==
    /\ host.anchorAt # Undefined
    /\ last'.at - host.anchorAt >= STABLE_TIMEOUT_MS

\* C29 as claimed: ABRLinear returns a bitrate higher than its input only from a
\* loss-free, unconstrained compute that happens at least one full stability
\* window after the compute that anchored the streak, with no lossy report and
\* no constraint clamp between the anchor and that compute.
C29_RaiseOnlyAfterStableWindow ==
    [][RaisingStep => (LossFreeUnconstrained(last') /\ WindowElapsed)]_vars

\* C29 amended: apart from the clamp that raises an input below minimum up to
\* minimum, ABRLinear returns a bitrate higher than its input only from such a
\* compute.
C29_RaiseOnlyAfterStableWindowOrClamp ==
    [][(RaisingStep /\ last'.ret # last'.pre.minimum) =>
          (LossFreeUnconstrained(last') /\ WindowElapsed)]_vars

\* C29's case: a probe raised the bitrate exactly one stability window after
\* the anchor of a streak that began after a congestion
C29_Witness ==
    /\ kind = "linear"
    /\ last.op = "compute" /\ last.ret > last.bitrate
    /\ last.ret > last.pre.minimum
    /\ host.anchorAt # Undefined
    /\ last.at - host.anchorAt = STABLE_TIMEOUT_MS
    /\ lvars.recoveryFactor = recoverySteps
    /\ lvars.stableBitrate < startup


\* The latest report was loss-free and given while no constraint lay below the
\* bitrate
Calm == host.latest \in {"startup", "free"}

\* C27: ABRLinear driven by a host that feeds each returned bitrate back as the
\* next current bitrate: if from some point on every report is loss-free and no
\* constraint lies below the bitrate, while the clock keeps advancing, then the
\* bitrate eventually reaches maximum and stays at maximum.
C27_CalmLinkReachesMaximum == (<>[]Calm) => <>[](host.bitrate = maximum)

\* The same for a controller whose bounds are ordered
CalmLinkReachesMaximumWithinOrderedBounds ==
    (minimum <= maximum /\ <>[]Calm) => <>[](host.bitrate = maximum)


------------------------------------------------------------------------------
(* Properties of ABRGrade later in a session *)

\* C30: in every reachable state the recovery back-off timeout of ABRGrade lies
\* within [BITRATE_RECOVERY_MIN_TIMEOUT, BITRATE_RECOVERY_MAX_TIMEOUT], that is
\* within [2500 ms, 60000 ms], for every sequence of computes and clock values.
C30_RecoveryTimeoutWithinBounds ==
    kind = "grade" =>
        /\ BITRATE_RECOVERY_MIN_TIMEOUT <= gvars.bitrateRecoveryTimeout
        /\ gvars.bitrateRecoveryTimeout <= BITRATE_RECOVERY_MAX_TIMEOUT


\* A compute step of ABRGrade, given a defined bitrate, whose constraint is below
\* the constraint of the previous compute
DecreaseStep ==
    /\ kind = "grade" /\ ComputeStep /\ last'.bitrate # Undefined
    /\ ConstraintDecreases(last'.bitrateConstraint, constraint)

\* C31: on the first constraint decrease seen with no recovery in progress the
\* bitrate is halved; on a constraint decrease that occurs while a recovery is
\* in progress the bitrate is not halved and the recovery back-off timeout is
\* lengthened instead.
C31_DecreaseHalvesOrLengthens ==
    [][DecreaseStep =>
          /\ (~Truthy(gvars.bitrateConstraintTime) /\ host.recoveredAt = Undefined)
                => host'.latest = "halved"
          /\ host.recoveredAt # Undefined => host'.latest = "lengthened"]_vars

\* The back-off is never lengthened on a constraint decrease
LengtheningUnreachable == host.latest # "lengthened"

\* A first constraint decrease with no recovery in progress was met and halved
\* the bitrate
FirstDecreaseHalves == host.latest = "halved" /\ host.recoveredAt = Undefined


\* A compute step of ABRGrade given a defined bitrate
GradeStep == kind = "grade" /\ ComputeStep /\ last'.bitrate # Undefined

\* The average of the loss window is below 0.2% after the step
LowLossAfter == AvgLess(ReadAverage(gvars'.lossPercents), 2, 1)

\* The step is given a constraint below maximum when the recovery timer, armed
\* before, has elapsed, and the average recent loss is low
RecoveryIncreaseStep ==
    /\ GradeStep
    /\ Truthy(last'.bitrateConstraint)
    /\ last'.bitrateConstraint < maximum
    /\ gvars.bitrateRecoveryNextTime # 0
    /\ last'.at >= gvars.bitrateRecoveryNextTime
    /\ LowLossAfter

\* C32 as claimed: on such a step compute returns the current bitrate increased
\* by 5%, or by 0.5%, capped at maximum, and never less than the current bitrate.
C32_IncreasesCurrentBitrate ==
    [][RecoveryIncreaseStep =>
          /\ last'.ret \in {Clamp(IncreaseTargetBitrate(last'.bitrate, maximum), Bounds),
                            Clamp(IncreaseTargetBitrateSlow(last'.bitrate, maximum), Bounds)}
          /\ last'.ret >= last'.bitrate]_vars

\* The 5% value exceeds the average of the stable-bitrate window after a
\* constraint decrease has been seen
SlowAfter(fast) ==
    /\ Truthy(gvars'.bitrateConstraintTime)
    /\ AvgLess(ReadAverage(gvars'.stableBitrates), fast, 1)

\* C32 amended: on such a step compute returns the constraint increased by 5%
\* (by 0.5% when a constraint decrease has been seen and the 5% value exceeds
\* the average of the stable-bitrate window), capped at maximum and clamped into
\* [minimum, maximum]; the value may lie below the current bitrate.
C32_IncreasesConstraint ==
    [][RecoveryIncreaseStep =>
          last'.ret =
              Clamp(IF SlowAfter(IncreaseTargetBitrate(last'.bitrateConstraint, maximum))
                    THEN IncreaseTargetBitrateSlow(last'.bitrateConstraint, maximum)
                    ELSE IncreaseTargetBitrate(last'.bitrateConstraint, maximum),
                    Bounds)]_vars

\* C32's case: the recovery step answered the constraint 800000 increased by
\* 0.5%, below the bitrate it was given
C32_Witness ==
    /\ kind = "grade"
    /\ last.op = "compute"
    /\ last.bitrateConstraint = 800000
    /\ host.recoveredAt = last.at
    /\ last.ret = 804000
    /\ last.ret < last.bitrate


\* The smallest and the largest of the samples held in q are within 20% of
\* their mean
HeldWithinTwentyPercent(q) ==
    /\ 10 * Smallest(q) * Len(q) >= 8 * SeqSum(q)
    /\ 10 * Largest(q) * Len(q) <= 12 * SeqSum(q)

\* C33: a compute of ABRGrade evaluates resolution adaptation exactly when the
\* smallest and the largest samples held in the stable-bitrate window are both
\* within 20% of the average of the samples held.
C33_ResolutionWhenHeldSamplesSteady ==
    [][(GradeStep /\ gvars'.stableBitrates.queue # <<>>) =>
          (last'.resolution <=> HeldWithinTwentyPercent(gvars'.stableBitrates.queue))]_vars

\* With every sample held positive, minimum reads 0 and resolution adaptation
\* is never evaluated
ResolutionOnlyWithoutPositiveAverage ==
    [][(GradeStep /\ last'.resolution) => SeqSum(gvars'.stableBitrates.queue) = 0]_vars


------------------------------------------------------------------------------
(* Properties of the ladder walk and of the predicates of MBRLinear *)

\* The neighbour of a selected track in the direction of the walk, if any
Neighbour(idx, down) ==
    IF idx \notin VideoTracks \cup AudioTracks THEN Undefined
    ELSE IF down THEN Down(idx) ELSE Up(idx)

\* The compute of the step went on to the ladder walk of lines 155-165
WalkStep ==
    /\ MBRComputeStep
    /\ mlast'.judged
    /\ \/ mlast'.down
       \/ UpAllowed(mlast'.up, mlast'.at - mbr'.appreciationTime, mbr.upDelay)

\* C34: in the ladder walk, when an audio and a video track are both selected
\* and the audio track has a neighbour in the direction required, compute
\* changes the audio track alone; the video track is changed only when no audio
\* track is selected or the audio track has no neighbour in that direction; when
\* neither has one compute returns false.
C34_WalkTriesAudioFirst ==
    [][WalkStep =>
          /\ (/\ tracks.audio # Undefined /\ tracks.video # Undefined
              /\ Neighbour(tracks.audio, mlast'.down) # Undefined)
             => /\ mlast'.ret
                /\ tracks' = [tracks EXCEPT !.audio = Neighbour(tracks.audio, mlast'.down)]
          /\ tracks'.video # tracks.video
             => /\ Neighbour(tracks.audio, mlast'.down) = Undefined
                /\ tracks'.video = Neighbour(tracks.video, mlast'.down)
                /\ tracks'.audio = tracks.audio
          /\ (/\ Neighbour(tracks.audio, mlast'.down) = Undefined
              /\ Neighbour(tracks.video, mlast'.down) = Undefined)
             => (~mlast'.ret /\ tracks' = tracks)]_vars

\* C34's case: with audio 4 and video 2 selected, both having an up neighbour,
\* an up-switch has changed the audio track alone
C34_Witness ==
    /\ UpSwitch(mlast)
    /\ mlast.tracks = [audio |-> 4, video |-> 2]
    /\ tracks = [audio |-> 5, video |-> 2]


\* The compute of the step is given statistics for the reference track of the
\* compute before, whose statistics held packetsLost and nackCount, and time has
\* passed since the first sample for that track
LaterSampleStep ==
    /\ MBRComputeStep
    /\ mlast.op = "compute" /\ mlast.judged
    /\ Reference(mlast.tracks) = Reference(tracks)
    /\ mlast.stats.packetsLost # Undefined
    /\ mlast.stats.nackCount # Undefined
    /\ mlast'.stats.present
    /\ mlast'.at > mbr'.testTime

\* packetsLost of report b is present and above the one of report a
LostIncreased(a, b) ==
    b.packetsLost # Undefined /\ b.packetsLost > a.packetsLost

\* C35: on a compute after the first sample for a reference track the
\* congestion predicate of MBRLinear is true exactly when packetsLost is present
\* and strictly greater than at the previous sample and, whenever the statistics
\* hold a nackCount, whatever its value, nackCount is strictly greater than at
\* the previous sample too.
C35_CongestedWhenLostAndNackIncrease ==
    [][LaterSampleStep =>
          (mlast'.down <=>
              /\ LostIncreased(mlast.stats, mlast'.stats)
              /\ mlast'.stats.nackCount # Undefined
                    => mlast'.stats.nackCount > mlast.stats.nackCount)]_vars

\* The predicate is as C35 states when a nackCount of 0 is taken as no nackCount
CongestedWhenLostAndNonZeroNackIncrease ==
    [][LaterSampleStep =>
          (mlast'.down <=>
              /\ LostIncreased(mlast.stats, mlast'.stats)
              /\ Truthy(mlast'.stats.nackCount)
                    => mlast'.stats.nackCount > mlast.stats.nackCount)]_vars


\* The recovery predicate has passed on the report of the step, the reference
\* track being a video track and the streak having lasted at most 10000 ms
GopRecoveryStep ==
    /\ MBRComputeStep
    /\ mlast'.judged /\ ~mlast'.down
    /\ TypeOf(Reference(tracks)) = "video"
    /\ mlast'.at - mbr'.appreciationTime <= MaxGopMs
    /\ mlast'.up

\* C36: MBRLinear, video reference track, congestion-free streak of at most 10000
\* ms: the recovery predicate returns true only if the key-frame-decoded counter
\* has been seen to advance beyond the value it had at the start of the streak in
\* progress; a report without the counter, or a counter value left over from an
\* earlier streak, never lets recovery pass.
C36_RecoveryNeedsKeyFrameOfTheStreak ==
    [][GopRecoveryStep =>
          /\ mlast'.stats.keyFramesDecoded # Undefined
          /\ host'.running /\ host'.atStart # Undefined /\ host'.advanced]_vars

\* A report without the counter never lets recovery pass, and recovery passes
\* after a key frame of the streak whenever the report that started the streak
\* held the counter
RecoveryNeedsKeyFrameWhenStartIsSeen ==
    [][GopRecoveryStep =>
          /\ mlast'.stats.keyFramesDecoded # Undefined
          /\ host'.atStart # Undefined => host'.advanced]_vars


\* The step is a compute that switches up and follows a compute that switched up
ConsecutiveUpSwitches == MBRComputeStep /\ UpSwitch(mlast) /\ UpSwitch(mlast')

\* C37: after an up-switch of the audio or of the video track no further
\* up-switch occurs until a new congestion-free period of at least upDelay
\* milliseconds has elapsed since that switch; in particular, with upDelay > 0,
\* two up-switches never happen on consecutive computes.
C37_NoConsecutiveUpSwitches ==
    [][ConsecutiveUpSwitches => mbr.upDelay = 0]_vars

\* Two consecutive computes switch up only when the first of them moved the
\* audio track beside a selected video track, which stays the reference track
ConsecutiveUpSwitchesKeepReference ==
    [][ConsecutiveUpSwitches =>
          /\ mlast.tracks.video # Undefined
          /\ mlast.tracks.video = tracks.video
          /\ mlast.tracks.audio # tracks.audio]_vars


------------------------------------------------------------------------------
(* Properties of clear, subset and of a new session *)

\* C38: after clear() the sample window is empty and minimum, maximum and
\* average all read 0, whatever was pushed, popped or read before, a read of
\* average included.
C38_ClearedReadsZero ==
    nlast.op = "clear" =>
        /\ nums.queue = <<>>
        /\ nums.min = 0
        /\ nums.max = 0
        /\ AverageOf(nums).num = 0

\* After clear() the window is empty, minimum and maximum read 0, and average
\* reads 0 unless it was read since the latest push or pop
ClearedReadsZeroUnlessAverageWasRead ==
    nlast.op = "clear" =>
        /\ nums.queue = <<>>
        /\ nums.min = 0
        /\ nums.max = 0
        /\ nlast.pre.average = NoAverage => AverageOf(nums).num = 0


\* The step is a call of subset(codecs) on the metadata, codecs being a Set
SubsetStep == mdlast' = "subset" /\ mdlast # "new"

\* C39: subset(codecs) returns a new metadata and leaves the metadata it is
\* called on as it was: its tracks map, its audios and videos lists and the up
\* and down links of its tracks are the same after the call as before.
C39_SubsetLeavesOriginal ==
    [][SubsetStep => meta' = meta]_vars

\* subset(codecs) leaves the metadata it is called on as it was when every
\* track of it has a codec of the Set
SubsetLeavesSupportedOriginal ==
    [][(SubsetStep /\ meta'.tracks = meta.tracks) => meta' = meta]_vars


\* The step is the first compute of a session started after another one ended
FirstComputeOfLaterSession ==
    /\ host.sessions >= 2
    /\ host.computes = 0
    /\ host'.computes = 1

\* C40 as claimed: after a session end followed by a new start with the same
\* controller, the first compute of the new session is given an undefined
\* bitrate and returns startup, and nothing of the strategy state of the
\* session before is left, whatever the order of the open, video-bitrate and
\* media-report events.
C40_NewSessionStartsAtStartup ==
    [][FirstComputeOfLaterSession =>
          /\ last'.bitrate = Undefined
          /\ last'.ret = startup
          /\ StrategyState = constructed]_vars

\* C40 amended: the first compute of the new session finds the strategy state of
\* a newly constructed controller; it is given an undefined bitrate and returns
\* startup unless the server has announced a bitrate in the new session before
\* it, in which case it is given the bitrate and the constraint announced.
C40_NewSessionStartsFresh ==
    [][FirstComputeOfLaterSession =>
          /\ StrategyState = constructed
          /\ ~host.announced
                => (last'.bitrate = Undefined /\ last'.ret = startup
                    /\ streamer'.videoBitrate = startup)
          /\ host.announced
                => /\ last'.bitrate \in AnnouncedBitrates
                   /\ last'.bitrateConstraint \in AnnouncedConstraints
                   /\ last'.bitrate = streamer.videoBitrate]_vars

\* C40's case: a session that left strategy state behind has ended, and the
\* first compute of the next session, no bitrate being announced, has returned
\* startup
C40_Witness ==
    /\ host.sessions = 2
    /\ host.computes = 1
    /\ host.dirty
    /\ ~host.announced
    /\ last.op = "compute"
    /\ last.bitrate = Undefined
    /\ last.ret = startup
    /\ streamer.videoBitrate = startup

====
